---- MODULE Spec2Model ----
(***************************************************************************)
(* Resume parsing pipeline: extract -> check_ocr -> {ocr ->                *)
(* check_ocr_quality} -> parse -> check_parse -> {END | parse}.            *)
(* One pipeline run (run_pipeline) over a PipelineState record that the    *)
(* graph merges node patches into.                                         *)
(***************************************************************************)
EXTENDS Integers, Sequences, FiniteSets, TLC

VARIABLES
    pc,          \* position of the run in the graph / in run_pipeline
    state,       \* PipelineState
    ocr_local,   \* locals of ocr_node: current_index, usage_entries
    calls,       \* provider chat calls actually made (kept by the provider)
    raised,      \* exception that left run_pipeline, if any
    result,      \* PipelineResult returned by run_pipeline, if any
    environ,     \* DEFAULT_PARSE_MODELS / DEFAULT_OCR_MODELS as configured
    parsed,      \* outcome of a direct parse_chain call, if made
    settings,    \* outcome of Settings(...), if constructed
    parse_refs,  \* outcome of reading settings.parse_model_chain, if read
    ocr_refs,    \* outcome of reading settings.ocr_model_chain, if read
    resolution,  \* outcome of get_provider for an entry of a read chain
    _instances,  \* providers/factory.py: cached provider per provider name
    created,     \* number of provider objects constructed so far
    resolutions, \* get_provider calls made so far, with what they gave
    _pipeline,   \* pipeline/service.py: the compiled graph, once built
    runs,        \* concurrent run_pipeline calls: each call's own record
    awaiting,    \* per concurrent call: the provider call it is suspended in
    invoked,     \* a function called on its own: its name and argument
    outcome,     \* what that call returned or raised, once it has
    storage,     \* rate limiter storage: hits per limiter key in the window
    served       \* HTTP responses given so far, with the key presented

run_vars == <<pc, state, ocr_local, calls, raised, result>>
config_vars == <<environ, parsed, settings, parse_refs, ocr_refs, resolution>>
provider_vars == <<_instances, created, resolutions>>
concurrent_vars == <<_pipeline, runs, awaiting>>
unit_vars == <<invoked, outcome>>
limit_vars == <<storage, served>>
vars == <<run_vars, config_vars, provider_vars, concurrent_vars, unit_vars,
          limit_vars>>

\* what a pipeline run leaves alone
outside_run == <<config_vars, provider_vars, concurrent_vars, unit_vars, limit_vars>>
\* what configuration loading leaves alone
outside_config == <<run_vars, provider_vars, concurrent_vars, unit_vars, limit_vars>>
\* what provider resolution on its own leaves alone
outside_provider == <<run_vars, config_vars, concurrent_vars, unit_vars, limit_vars>>
\* what concurrent requests leave alone
outside_concurrent == <<run_vars, config_vars, unit_vars, limit_vars>>
\* what a single call of a function leaves alone
outside_unit == <<run_vars, config_vars, provider_vars, concurrent_vars, limit_vars>>
\* what requests to the HTTP API leave alone
outside_limit == <<run_vars, config_vars, provider_vars, concurrent_vars, unit_vars>>

\* ---------------------------------------------------------------- bounds
MaxParseChain == 2
MaxOcrChain == 2

\* ------------------------------------------------------ optional values
None == [some |-> FALSE]
Some(v) == [some |-> TRUE, val |-> v]

\* No pipeline run is in progress
RunIdle ==
    /\ pc = "idle"
    /\ state = None
    /\ ocr_local = None
    /\ calls = <<>>
    /\ raised = None
    /\ result = None

\* No configuration is being loaded
ConfigIdle ==
    /\ environ = None
    /\ parsed = None
    /\ settings = None
    /\ parse_refs = None
    /\ ocr_refs = None
    /\ resolution = None

\* No provider has been resolved: the cache is the empty dict
ProviderIdle ==
    /\ _instances = <<>>
    /\ created = 0
    /\ resolutions = <<>>

\* No concurrent request has been made
ConcurrentIdle ==
    /\ _pipeline = None
    /\ runs = <<>>
    /\ awaiting = <<>>

\* No function has been called on its own
UnitIdle ==
    /\ invoked = None
    /\ outcome = None

\* No request has reached the HTTP API
LimitIdle ==
    /\ storage = <<>>
    /\ served = <<>>

\* ---------------------------------------------------------------- texts
\* A text is a sequence of one-character strings.
RECURSIVE Repeat(_, _)
Repeat(unit, n) == IF n = 0 THEN <<>> ELSE unit \o Repeat(unit, n - 1)

isspace(c) == c \in {" ", "\n"}
isalpha(c) == c \in {"a", "b", "c"}

EmptyText == <<>>
ShortText == <<"a", "b">>
OtherShortText == <<"b", "a">>
LongerText == <<"a", "b", "c">>
GoodText == Repeat(<<"a", "b", "c", "a", " ">>, 20)

\* ------------------------------------------------------ quality scoring
MIN_CHARS == 100
MIN_WORDS == 20
\* MIN_ALPHA_RATIO = 0.5, kept as the fraction 1/2
MIN_ALPHA_RATIO_NUM == 1
MIN_ALPHA_RATIO_DEN == 2

\* number of positions i..Len(text) whose character satisfies the class
CountIf(text, i, class) ==
    Cardinality({j \in i..Len(text) :
        \/ (class = "alpha" /\ ~isspace(text[j]) /\ isalpha(text[j]))
        \/ (class = "non_ws" /\ ~isspace(text[j]))
        \/ (class = "word_start" /\ ~isspace(text[j])
              /\ (j = 1 \/ isspace(text[j - 1])))})

\* len(text.split()) if text.strip() else 0
word_count(text) == CountIf(text, 1, "word_start")

\* a score_quality that is satisfied with two criteria out of three
score_quality_two_of_three(text) ==
    LET char_count == Len(text)
        words == word_count(text)
        non_ws == CountIf(text, 1, "non_ws")
        alpha_count == CountIf(text, 1, "alpha")
        alpha_ratio == IF non_ws > 0 THEN <<alpha_count, non_ws>> ELSE <<0, 1>>
        passes_chars == char_count >= MIN_CHARS
        passes_words == words >= MIN_WORDS
        passes_alpha == alpha_ratio[1] * MIN_ALPHA_RATIO_DEN
                            >= MIN_ALPHA_RATIO_NUM * alpha_ratio[2]
        criteria_met == (IF passes_chars THEN 1 ELSE 0)
                        + (IF passes_words THEN 1 ELSE 0)
                        + (IF passes_alpha THEN 1 ELSE 0)
    IN [score_thirds |-> criteria_met,
        char_count |-> char_count,
        word_count |-> words,
        alpha_ratio |-> alpha_ratio,
        is_sufficient |-> criteria_met >= 2]

\* a score_quality that takes the ratio of an empty text to be 1
score_quality_empty_ratio_one(text) ==
    LET char_count == Len(text)
        words == word_count(text)
        non_ws == CountIf(text, 1, "non_ws")
        alpha_count == CountIf(text, 1, "alpha")
        alpha_ratio == IF non_ws > 0 THEN <<alpha_count, non_ws>> ELSE <<1, 1>>
        passes_chars == char_count >= MIN_CHARS
        passes_words == words >= MIN_WORDS
        passes_alpha == alpha_ratio[1] * MIN_ALPHA_RATIO_DEN
                            >= MIN_ALPHA_RATIO_NUM * alpha_ratio[2]
        criteria_met == (IF passes_chars THEN 1 ELSE 0)
                        + (IF passes_words THEN 1 ELSE 0)
                        + (IF passes_alpha THEN 1 ELSE 0)
    IN [score_thirds |-> criteria_met,
        char_count |-> char_count,
        word_count |-> words,
        alpha_ratio |-> alpha_ratio,
        is_sufficient |-> passes_chars /\ passes_words /\ passes_alpha]

score_quality(text) ==
    LET char_count == Len(text)
        words == word_count(text)
        non_ws == CountIf(text, 1, "non_ws")
        alpha_count == CountIf(text, 1, "alpha")
        \* alpha_ratio = alpha_count / len(non_ws) if non_ws else 0.0
        alpha_ratio == IF non_ws > 0 THEN <<alpha_count, non_ws>> ELSE <<0, 1>>
        passes_chars == char_count >= MIN_CHARS
        passes_words == words >= MIN_WORDS
        passes_alpha == alpha_ratio[1] * MIN_ALPHA_RATIO_DEN
                            >= MIN_ALPHA_RATIO_NUM * alpha_ratio[2]
        criteria_met == (IF passes_chars THEN 1 ELSE 0)
                        + (IF passes_words THEN 1 ELSE 0)
                        + (IF passes_alpha THEN 1 ELSE 0)
    IN [score_thirds |-> criteria_met,
        char_count |-> char_count,
        word_count |-> words,
        alpha_ratio |-> alpha_ratio,
        is_sufficient |-> passes_chars /\ passes_words /\ passes_alpha]

\* ------------------------------------------------- uploads and extraction
PDF_CT == "application/pdf"
DOCX_CT == "application/vnd.openxmlformats-officedocument.wordprocessingml.document"
PNG_CT == "image/png"
OCTET_CT == "application/octet-stream"

_PDF_CONTENT_TYPES == {PDF_CT}
_DOCX_CONTENT_TYPES == {DOCX_CT}
_IMAGE_CONTENT_TYPES == {PNG_CT, "image/jpeg", "image/webp", "image/tiff"}
_PDF_EXTENSIONS == {".pdf"}
_DOCX_EXTENSIONS == {".docx"}
_IMAGE_EXTENSIONS == {".png", ".jpg", ".jpeg", ".webp", ".tiff"}

\* The uploaded bytes: the format they really are, and what the document
\* libraries read from them (page count, selectable text).
Bytes(fmt, pages, text) == [fmt |-> fmt, pages |-> pages, text |-> text]

\* A filename is kept as the pair os.path.splitext splits it into.
Filename(stem, ext) == [stem |-> stem, ext |-> ext]

Document(content, content_type, filename) ==
    [content |-> content, content_type |-> content_type, filename |-> filename]

\* The uploads of the model: bytes with the content type and filename the
\* client declares for them.
Documents ==
    { Document(Bytes("pdf", 0, EmptyText), PDF_CT, Filename("empty", ".pdf")),
      Document(Bytes("pdf", 1, EmptyText), PDF_CT, Filename("scan", ".pdf")),
      Document(Bytes("pdf", 1, ShortText), PDF_CT, Filename("resume", ".pdf")),
      Document(Bytes("pdf", 2, GoodText), PDF_CT, Filename("resume", ".pdf")),
      Document(Bytes("pdf", 2, GoodText), OCTET_CT, Filename("resume", ".pdf")),
      Document(Bytes("junk", 0, EmptyText), PDF_CT, Filename("corrupt", ".pdf")),
      Document(Bytes("docx", 1, ShortText), DOCX_CT, Filename("resume", ".docx")),
      Document(Bytes("junk", 0, EmptyText), OCTET_CT, Filename("corrupt", ".docx")),
      Document(Bytes("junk", 0, EmptyText), PNG_CT, Filename("scan", ".png")),
      Document(Bytes("junk", 0, EmptyText), OCTET_CT, Filename("file", ".xyz")) }

ExtractionResult(text, pages, method) ==
    [text |-> text, pages |-> pages, method |-> method,
     char_count |-> Len(text), word_count |-> word_count(text)]

Returned(v) == [kind |-> "return", val |-> v]
Raised(type, message) == [kind |-> "raise", type |-> type, message |-> message]

extract_pdf(content, filename) ==
    IF content.fmt # "pdf"
    THEN Raised("ExtractionError", "Failed to open PDF")
    ELSE Returned(ExtractionResult(content.text, content.pages, "pdf"))

extract_docx(content, filename) ==
    IF content.fmt # "docx"
    THEN Raised("ExtractionError", "Failed to open DOCX")
    ELSE Returned(ExtractionResult(content.text, 1, "docx"))

extract_text(content, content_type, filename) ==
    LET ct == content_type
        ext == filename.ext
    IN IF ct \in _PDF_CONTENT_TYPES \/ ext \in _PDF_EXTENSIONS
       THEN extract_pdf(content, filename)
       ELSE IF ct \in _DOCX_CONTENT_TYPES \/ ext \in _DOCX_EXTENSIONS
       THEN extract_docx(content, filename)
       ELSE IF ct \in _IMAGE_CONTENT_TYPES \/ ext \in _IMAGE_EXTENSIONS
       THEN Returned(ExtractionResult(EmptyText, 1, "none"))
       ELSE Raised("ValueError", "Unsupported file type")

\* ------------------------------------------------------------ providers
REGISTERED_PROVIDERS == {"openrouter", "anthropic", "openai"}

ModelRef(provider, model) == [provider |-> provider, model |-> model]

ModelRefs ==
    { ModelRef("openrouter", "google/gemini-flash-1.5"),
      ModelRef("openrouter", "openai/gpt-4o-mini"),
      ModelRef("anthropic", "claude-haiku") }

\* _create_provider: only openrouter has an implementation
_create_provider(name) ==
    IF name = "openrouter" THEN Returned("OpenRouterProvider")
    ELSE IF name \in {"anthropic", "openai"}
    THEN Raised("NotImplementedError", "provider is not yet implemented")
    ELSE Raised("ValueError", "No implementation for provider")

get_provider(ref) ==
    IF ref.provider \notin REGISTERED_PROVIDERS
    THEN Raised("ValueError", "Unknown provider")
    ELSE _create_provider(ref.provider)

\* What a provider answers to one chat call: a ProviderError, or a response
\* whose first choice has non-empty content, with its token usage.
Usages == { [input_tokens |-> 0, output_tokens |-> 0],
            [input_tokens |-> 5, output_tokens |-> 3] }

ProviderErrors == { "timeout" }

ChatReplies(contents) ==
    { [ok |-> FALSE, message |-> m] : m \in ProviderErrors }
    \cup { [ok |-> TRUE, content |-> c, usage |-> u] : c \in contents, u \in Usages }

\* ------------------------------------------------------------ OCR service
\* pdf_pages_to_images: one image per page, ExtractionError if the bytes do
\* not open as a PDF.
pdf_pages_to_images(content) ==
    IF content.fmt # "pdf"
    THEN Raised("ExtractionError", "Failed to open PDF for imaging")
    ELSE Returned(content.pages)

\* Texts a vision model may answer with (content is never empty: the
\* provider rejects an empty first choice).
OcrContents == {ShortText, OtherShortText, LongerText, GoodText}
OcrReplies == ChatReplies(OcrContents)

\* an ocr_extract that resolves the provider before it looks at the pages
ocr_extract_resolves_first(content, model_ref, reply) ==
    LET images == pdf_pages_to_images(content)
        provider == get_provider(model_ref)
    IN IF images.kind = "raise" THEN [out |-> images, called |-> FALSE]
       ELSE IF provider.kind = "raise" THEN [out |-> provider, called |-> FALSE]
       ELSE IF images.val = 0
       THEN [out |-> Returned([text |-> EmptyText, pages |-> 0,
                               input_tokens |-> 0, output_tokens |-> 0]),
             called |-> FALSE]
       ELSE IF ~reply.ok
       THEN [out |-> Raised("ProviderError", reply.message), called |-> TRUE]
       ELSE [out |-> Returned([text |-> reply.content, pages |-> images.val,
                               input_tokens |-> reply.usage.input_tokens,
                               output_tokens |-> reply.usage.output_tokens]),
             called |-> TRUE]

\* ocr_extract(content, model_ref) where reply is the provider's answer to
\* the chat call, if the call is made.  called tells whether it was made.
ocr_extract(content, model_ref, reply) ==
    LET images == pdf_pages_to_images(content)
        provider == get_provider(model_ref)
    IN IF images.kind = "raise" THEN [out |-> images, called |-> FALSE]
       ELSE IF images.val = 0
       THEN [out |-> Returned([text |-> EmptyText, pages |-> 0,
                               input_tokens |-> 0, output_tokens |-> 0]),
             called |-> FALSE]
       ELSE IF provider.kind = "raise" THEN [out |-> provider, called |-> FALSE]
       ELSE IF ~reply.ok
       THEN [out |-> Raised("ProviderError", reply.message), called |-> TRUE]
       ELSE [out |-> Returned([text |-> reply.content, pages |-> images.val,
                               input_tokens |-> reply.usage.input_tokens,
                               output_tokens |-> reply.usage.output_tokens]),
             called |-> TRUE]

\* ------------------------------------------------------------ LLM service
\* Raw outputs of a parse model, by what validation makes of them.
LlmContents == {"json_resume_1", "json_resume_2", "not_json", "wrong_shape"}
ParseReplies == ChatReplies(LlmContents)

validate_llm_response(raw_output) ==
    IF raw_output = "not_json"
    THEN [success |-> FALSE, data |-> None, errors |-> <<"Invalid JSON">>]
    ELSE IF raw_output = "wrong_shape"
    THEN [success |-> FALSE, data |-> None,
          errors |-> <<"personal_info: Field required",
                       "experience[0].start_date: Field required">>]
    ELSE [success |-> TRUE, data |-> Some(raw_output), errors |-> <<>>]

LLMExtractionResult(success, data, validation_errors, input_tokens, output_tokens) ==
    [success |-> success, data |-> data, validation_errors |-> validation_errors,
     input_tokens |-> input_tokens, output_tokens |-> output_tokens]

\* an extract_resume_data that reports no usage for an answer that does
\* not validate
extract_resume_data_drops_usage(text, model_ref, reply) ==
    LET provider == get_provider(model_ref)
        validation == validate_llm_response(reply.content)
    IN IF provider.kind = "raise" THEN [out |-> provider, called |-> FALSE]
       ELSE IF ~reply.ok
       THEN [out |-> Raised("ProviderError", reply.message), called |-> TRUE]
       ELSE IF validation.success /\ validation.data.some
       THEN [out |-> Returned(LLMExtractionResult(TRUE, validation.data, <<>>,
                         reply.usage.input_tokens, reply.usage.output_tokens)),
             called |-> TRUE]
       ELSE [out |-> Returned(LLMExtractionResult(FALSE, None, validation.errors,
                         0, 0)),
             called |-> TRUE]

extract_resume_data(text, model_ref, reply) ==
    LET provider == get_provider(model_ref)
        validation == validate_llm_response(reply.content)
    IN IF provider.kind = "raise" THEN [out |-> provider, called |-> FALSE]
       ELSE IF ~reply.ok
       THEN [out |-> Raised("ProviderError", reply.message), called |-> TRUE]
       ELSE IF validation.success /\ validation.data.some
       THEN [out |-> Returned(LLMExtractionResult(TRUE, validation.data, <<>>,
                         reply.usage.input_tokens, reply.usage.output_tokens)),
             called |-> TRUE]
       ELSE [out |-> Returned(LLMExtractionResult(FALSE, None, validation.errors,
                         reply.usage.input_tokens, reply.usage.output_tokens)),
             called |-> TRUE]

\* ------------------------------------------------------------ pipeline state
UsageEntry(step, model, input_tokens, output_tokens) ==
    [step |-> step, model |-> model,
     input_tokens |-> input_tokens, output_tokens |-> output_tokens]

\* Python truthiness of an optional string / optional object
Truthy(opt) == opt.some /\ opt.val # <<>>

\* The state keys a run_pipeline call starts with; keys not yet written
\* read as None (state.get), text as "".
initial_state(content, content_type, filename, parse_chain, ocr_chain, ocr_preference) ==
    [content |-> content,
     content_type |-> content_type,
     filename |-> filename,
     parse_chain |-> parse_chain,
     ocr_chain |-> ocr_chain,
     ocr_preference |-> ocr_preference,
     extraction_result |-> None,
     text_quality |-> None,
     text |-> EmptyText,
     ocr_attempted |-> FALSE,
     ocr_text |-> None,
     parse_result |-> None,
     resume_data |-> None,
     usage |-> <<>>,
     current_parse_index |-> 0,
     current_ocr_index |-> 0,
     error |-> None]

\* a merge without the reducer on usage: every key is overwritten
Merge_overwrites_usage(st, patch) ==
    [k \in DOMAIN st |-> IF k \in DOMAIN patch THEN patch[k] ELSE st[k]]

\* The graph merges a node's patch into the state: usage is reduced with
\* operator.add, every other key is overwritten.
Merge(st, patch) ==
    [k \in DOMAIN st |->
        IF k \in DOMAIN patch
        THEN (IF k = "usage" THEN st[k] \o patch[k] ELSE patch[k])
        ELSE st[k]]

NoPatch == <<>>

\* ------------------------------------------------------------ pipeline nodes
extract_node(st) ==
    LET r == extract_text(st.content, st.content_type, st.filename)
    IN IF r.kind = "raise"
       THEN (IF r.type = "ExtractionError"
             THEN Returned([error |-> Some(<<r.message>>), text |-> EmptyText])
             ELSE r)
       ELSE Returned([extraction_result |-> Some(r.val),
                      text_quality |-> Some(score_quality(r.val.text)),
                      text |-> r.val.text])

check_ocr_node(st) == NoPatch

\* Locals of ocr_node when the node is entered
ocr_node_entry(st) ==
    [current_index |-> st.current_ocr_index, usage_entries |-> <<>>]

\* a success patch that also makes the OCR text the working text
ocr_node_success_writes_text(loc, model_ref, ocr_result) ==
    [ocr_text |-> Some(ocr_result.text),
     text |-> ocr_result.text,
     ocr_attempted |-> TRUE,
     usage |-> Append(loc.usage_entries,
                      UsageEntry("ocr", model_ref.model,
                                 ocr_result.input_tokens, ocr_result.output_tokens)),
     current_ocr_index |-> loc.current_index]

\* ocr_node, a successful ocr_extract: the patch the node returns
ocr_node_success(loc, model_ref, ocr_result) ==
    [ocr_text |-> Some(ocr_result.text),
     ocr_attempted |-> TRUE,
     usage |-> Append(loc.usage_entries,
                      UsageEntry("ocr", model_ref.model,
                                 ocr_result.input_tokens, ocr_result.output_tokens)),
     current_ocr_index |-> loc.current_index]

\* a handler that moves on without recording the failed attempt
ocr_node_provider_error_unrecorded(loc, model_ref) ==
    [current_index |-> loc.current_index + 1,
     usage_entries |-> loc.usage_entries]

\* ocr_node, except ProviderError: the locals after the handler
ocr_node_provider_error(loc, model_ref) ==
    [current_index |-> loc.current_index + 1,
     usage_entries |-> Append(loc.usage_entries,
                              UsageEntry("ocr", model_ref.model, 0, 0))]

\* an exit that treats an exhausted OCR chain as a pipeline error
ocr_node_exhausted_fatal(loc) ==
    [ocr_text |-> None,
     ocr_attempted |-> TRUE,
     usage |-> loc.usage_entries,
     current_ocr_index |-> loc.current_index,
     error |-> Some(<<"All OCR models exhausted">>)]

\* an exit that reports an exhausted chain as an empty OCR text
ocr_node_exhausted_empty_text(loc) ==
    [ocr_text |-> Some(EmptyText),
     ocr_attempted |-> TRUE,
     usage |-> loc.usage_entries,
     current_ocr_index |-> loc.current_index]

\* ocr_node, after the loop: the chain is exhausted
ocr_node_exhausted(loc) ==
    [ocr_text |-> None,
     ocr_attempted |-> TRUE,
     usage |-> loc.usage_entries,
     current_ocr_index |-> loc.current_index]

\* One pass of ocr_node: the loop test, one ocr_extract attempt and its
\* handling, or the exit after the loop.  "continue" carries the locals
\* into the next pass.
ocr_node(st, loc, reply) ==
    IF loc.current_index < Len(st.ocr_chain)
    THEN LET model_ref == st.ocr_chain[loc.current_index + 1]
             r == ocr_extract(st.content, model_ref, reply)
         IN IF r.out.kind = "return"
            THEN [kind |-> "return", called |-> r.called, model |-> model_ref,
                  val |-> ocr_node_success(loc, model_ref, r.out.val)]
            ELSE IF r.out.type = "ProviderError"
            THEN [kind |-> "continue", called |-> r.called, model |-> model_ref,
                  val |-> ocr_node_provider_error(loc, model_ref)]
            ELSE [kind |-> "raise", called |-> r.called, model |-> model_ref,
                  type |-> r.out.type, message |-> r.out.message]
    ELSE [kind |-> "return", called |-> FALSE, model |-> ModelRef("", ""),
          val |-> ocr_node_exhausted(loc)]

\* a check that also takes OCR text of equal length
check_ocr_quality_node_not_shorter(st) ==
    LET ocr_text == st.ocr_text
        current_text == st.text
    IN IF Truthy(ocr_text) /\ Len(ocr_text.val) >= Len(current_text)
       THEN [text |-> ocr_text.val]
       ELSE NoPatch

check_ocr_quality_node(st) ==
    LET ocr_text == st.ocr_text
        current_text == st.text
    IN IF Truthy(ocr_text) /\ Len(ocr_text.val) > Len(current_text)
       THEN [text |-> ocr_text.val]
       ELSE NoPatch

\* parse_node that lets a ProviderError leave the node
parse_node_provider_error_escapes(st, reply) ==
    IF Truthy(st.error)
    THEN [kind |-> "return", called |-> FALSE, model |-> ModelRef("", ""),
          val |-> NoPatch]
    ELSE LET model_ref == st.parse_chain[st.current_parse_index + 1]
             r == extract_resume_data(st.text, model_ref, reply)
         IN IF r.out.kind = "return"
            THEN [kind |-> "return", called |-> r.called, model |-> model_ref,
                  val |-> [parse_result |-> Some(r.out.val),
                           usage |-> <<UsageEntry("parse", model_ref.model,
                                                  r.out.val.input_tokens,
                                                  r.out.val.output_tokens)>>]]
            ELSE [kind |-> "raise", called |-> r.called, model |-> model_ref,
                  type |-> r.out.type, message |-> r.out.message]

parse_node(st, reply) ==
    IF Truthy(st.error)
    THEN [kind |-> "return", called |-> FALSE, model |-> ModelRef("", ""),
          val |-> NoPatch]
    ELSE LET model_ref == st.parse_chain[st.current_parse_index + 1]
             r == extract_resume_data(st.text, model_ref, reply)
         IN IF r.out.kind = "return"
            THEN [kind |-> "return", called |-> r.called, model |-> model_ref,
                  val |-> [parse_result |-> Some(r.out.val),
                           usage |-> <<UsageEntry("parse", model_ref.model,
                                                  r.out.val.input_tokens,
                                                  r.out.val.output_tokens)>>]]
            ELSE IF r.out.type = "ProviderError"
            THEN [kind |-> "return", called |-> r.called, model |-> model_ref,
                  val |-> [parse_result |->
                              Some(LLMExtractionResult(FALSE, None,
                                        <<r.out.message>>, 0, 0)),
                           usage |-> <<UsageEntry("parse", model_ref.model, 0, 0)>>]]
            ELSE [kind |-> "raise", called |-> r.called, model |-> model_ref,
                  type |-> r.out.type, message |-> r.out.message]

\* a join that keeps only the first string
Join_first_only(strings, sep) ==
    IF strings = <<>> THEN <<>> ELSE <<Head(strings)>>

RECURSIVE Join(_, _)
\* sep.join(strings), as the sequence of its pieces
Join(strings, sep) ==
    IF strings = <<>> THEN <<>>
    ELSE IF Len(strings) = 1 THEN strings
    ELSE <<Head(strings), sep>> \o Join(Tail(strings), sep)

EXHAUSTED_PREFIX == "All parse models exhausted. Last errors: "

\* check_parse_node that rewinds the cursor when the chain is exhausted
check_parse_node_rewinds(st) ==
    IF Truthy(st.error) THEN NoPatch
    ELSE IF ~st.parse_result.some
    THEN [error |-> Some(<<"No parse result available">>)]
    ELSE IF st.parse_result.val.success /\ st.parse_result.val.data.some
    THEN [resume_data |-> st.parse_result.val.data]
    ELSE IF st.current_parse_index + 1 < Len(st.parse_chain)
    THEN [current_parse_index |-> st.current_parse_index + 1]
    ELSE [current_parse_index |-> 0,
          error |-> Some(<<EXHAUSTED_PREFIX>>
                         \o Join(st.parse_result.val.validation_errors, "; "))]

\* check_parse_node that retries without moving the cursor
check_parse_node_same_entry(st) ==
    IF Truthy(st.error) THEN NoPatch
    ELSE IF ~st.parse_result.some
    THEN [error |-> Some(<<"No parse result available">>)]
    ELSE IF st.parse_result.val.success /\ st.parse_result.val.data.some
    THEN [resume_data |-> st.parse_result.val.data]
    ELSE IF st.current_parse_index + 1 < Len(st.parse_chain)
    THEN [current_parse_index |-> st.current_parse_index]
    ELSE [error |-> Some(<<EXHAUSTED_PREFIX>>
                         \o Join(st.parse_result.val.validation_errors, "; "))]

\* check_parse_node without the guard on an already recorded error
check_parse_node_unguarded(st) ==
    IF ~st.parse_result.some
    THEN [error |-> Some(<<"No parse result available">>)]
    ELSE IF st.parse_result.val.success /\ st.parse_result.val.data.some
    THEN [resume_data |-> st.parse_result.val.data]
    ELSE IF st.current_parse_index + 1 < Len(st.parse_chain)
    THEN [current_parse_index |-> st.current_parse_index + 1]
    ELSE [error |-> Some(<<EXHAUSTED_PREFIX>>
                         \o Join(st.parse_result.val.validation_errors, "; "))]

\* check_parse_node whose bound test is off by one
check_parse_node_off_by_one(st) ==
    IF Truthy(st.error) THEN NoPatch
    ELSE IF ~st.parse_result.some
    THEN [error |-> Some(<<"No parse result available">>)]
    ELSE IF st.parse_result.val.success /\ st.parse_result.val.data.some
    THEN [resume_data |-> st.parse_result.val.data]
    ELSE IF st.current_parse_index < Len(st.parse_chain)
    THEN [current_parse_index |-> st.current_parse_index + 1]
    ELSE [error |-> Some(<<EXHAUSTED_PREFIX>>
                         \o Join(st.parse_result.val.validation_errors, "; "))]

check_parse_node(st) ==
    IF Truthy(st.error) THEN NoPatch
    ELSE IF ~st.parse_result.some
    THEN [error |-> Some(<<"No parse result available">>)]
    ELSE IF st.parse_result.val.success /\ st.parse_result.val.data.some
    THEN [resume_data |-> st.parse_result.val.data]
    ELSE IF st.current_parse_index + 1 < Len(st.parse_chain)
    THEN [current_parse_index |-> st.current_parse_index + 1]
    ELSE [error |-> Some(<<EXHAUSTED_PREFIX>>
                         \o Join(st.parse_result.val.validation_errors, "; "))]

\* ------------------------------------------------------------ graph routing
\* route_ocr that honours 'force' before looking at the chain
route_ocr_force_first(st) ==
    IF Truthy(st.error) THEN "parse"
    ELSE IF st.ocr_preference = "skip" THEN "parse"
    ELSE IF st.ocr_preference = "force" THEN "ocr"
    ELSE IF st.ocr_chain = <<>> THEN "parse"
    ELSE IF st.text_quality.some /\ st.text_quality.val.is_sufficient THEN "parse"
    ELSE "ocr"

\* route_ocr that sends every 'auto' request with an OCR chain to OCR
route_ocr_ignores_quality(st) ==
    IF Truthy(st.error) THEN "parse"
    ELSE IF st.ocr_preference = "skip" THEN "parse"
    ELSE IF st.ocr_chain = <<>> THEN "parse"
    ELSE "ocr"

route_ocr(st) ==
    IF Truthy(st.error) THEN "parse"
    ELSE IF st.ocr_preference = "skip" THEN "parse"
    ELSE IF st.ocr_chain = <<>> THEN "parse"
    ELSE IF st.ocr_preference = "force" THEN "ocr"
    ELSE IF st.text_quality.some /\ st.text_quality.val.is_sufficient THEN "parse"
    ELSE "ocr"

\* a routing that ends the run whenever there is no resume data
route_parse_result_no_retry(st) ==
    IF st.resume_data.some THEN "done" ELSE "fail"

route_parse_result(st) ==
    IF st.resume_data.some THEN "done"
    ELSE IF Truthy(st.error) THEN "fail"
    ELSE "retry"

\* ------------------------------------------------------------ run_pipeline
PipelineResult(final_state) ==
    LET resume_data == final_state.resume_data
        ocr_text == final_state.ocr_text
        final_text == final_state.text
        ocr_text_used == /\ final_state.ocr_attempted
                         /\ ocr_text.some
                         /\ Len(ocr_text.val) > 0
                         /\ final_text = ocr_text.val
    IN [success |-> resume_data.some,
        data |-> resume_data,
        metadata |-> [extraction_method |-> IF ocr_text_used THEN "ocr"
                                            ELSE "algorithmic",
                      ocr_used |-> ocr_text_used,
                      pages |-> IF final_state.extraction_result.some
                                THEN final_state.extraction_result.val.pages
                                ELSE 0,
                      usage |-> final_state.usage],
        error |-> final_state.error]

\* ------------------------------------------------------------ the run
PREFERENCES == {"auto", "force", "skip"}

\* chains of at most n entries, no entry twice
Chains(n) ==
    UNION { { c \in [1..k -> ModelRefs] : \A i, j \in 1..k : c[i] = c[j] => i = j }
            : k \in 0..n }

Init ==
    /\ \E doc \in Documents, ocr_preference \in PREFERENCES,
          parse_chain \in Chains(MaxParseChain) \ {<<>>},
          ocr_chain \in Chains(MaxOcrChain) :
            state = initial_state(doc.content, doc.content_type, doc.filename,
                                  parse_chain, ocr_chain, ocr_preference)
    /\ pc = "extract"
    /\ ocr_local = None
    /\ calls = <<>>
    /\ raised = None
    /\ result = None
    /\ ConfigIdle
    /\ ProviderIdle
    /\ ConcurrentIdle
    /\ UnitIdle
    /\ LimitIdle

\* A chat call the provider received, with what it answered
Call(step, model_ref, reply) ==
    [step |-> step, model |-> model_ref.model, reply |-> reply]

\* An exception no node catches leaves ainvoke and run_pipeline
Escapes(node, r) ==
    /\ pc' = "raised"
    /\ raised' = Some([node |-> node, type |-> r.type, message |-> r.message])
    /\ ocr_local' = None
    /\ UNCHANGED <<state, result>>

Extract ==
    /\ pc = "extract"
    /\ LET r == extract_node(state)
       IN IF r.kind = "raise"
          THEN Escapes("extract", r)
          ELSE /\ state' = Merge(state, r.val)
               /\ pc' = "check_ocr"
               /\ UNCHANGED <<ocr_local, raised, result>>
    /\ UNCHANGED calls
    /\ UNCHANGED outside_run

CheckOcr ==
    /\ pc = "check_ocr"
    /\ state' = Merge(state, check_ocr_node(state))
    /\ pc' = route_ocr(state')
    /\ UNCHANGED <<ocr_local, calls, raised, result>>
    /\ UNCHANGED outside_run

Ocr ==
    /\ pc = "ocr"
    /\ \E reply \in OcrReplies :
         LET loc == IF ocr_local.some THEN ocr_local.val ELSE ocr_node_entry(state)
             r == ocr_node(state, loc, reply)
         IN /\ calls' = IF r.called THEN Append(calls, Call("ocr", r.model, reply))
                        ELSE calls
            /\ CASE r.kind = "return" ->
                      /\ state' = Merge(state, r.val)
                      /\ pc' = "check_ocr_quality"
                      /\ ocr_local' = None
                      /\ UNCHANGED <<raised, result>>
                 [] r.kind = "continue" ->
                      /\ ocr_local' = Some(r.val)
                      /\ UNCHANGED <<pc, state, raised, result>>
                 [] r.kind = "raise" -> Escapes("ocr", r)
    /\ UNCHANGED outside_run

CheckOcrQuality ==
    /\ pc = "check_ocr_quality"
    /\ state' = Merge(state, check_ocr_quality_node(state))
    /\ pc' = "parse"
    /\ UNCHANGED <<ocr_local, calls, raised, result>>
    /\ UNCHANGED outside_run

Parse ==
    /\ pc = "parse"
    /\ \E reply \in ParseReplies :
         LET r == parse_node(state, reply)
         IN /\ calls' = IF r.called THEN Append(calls, Call("parse", r.model, reply))
                        ELSE calls
            /\ IF r.kind = "raise"
               THEN Escapes("parse", r)
               ELSE /\ state' = Merge(state, r.val)
                    /\ pc' = "check_parse"
                    /\ UNCHANGED <<ocr_local, raised, result>>
    /\ UNCHANGED outside_run

CheckParse ==
    /\ pc = "check_parse"
    /\ state' = Merge(state, check_parse_node(state))
    /\ pc' = CASE route_parse_result(state') = "done" -> "END"
               [] route_parse_result(state') = "fail" -> "END"
               [] route_parse_result(state') = "retry" -> "parse"
    /\ UNCHANGED <<ocr_local, calls, raised, result>>
    /\ UNCHANGED outside_run

Return ==
    /\ pc = "END"
    /\ result' = Some(PipelineResult(state))
    /\ pc' = "returned"
    /\ UNCHANGED <<state, ocr_local, calls, raised>>
    /\ UNCHANGED outside_run

Next ==
    \/ Extract
    \/ CheckOcr
    \/ Ocr
    \/ CheckOcrQuality
    \/ Parse
    \/ CheckParse
    \/ Return

Spec == Init /\ [][Next]_vars

\* ------------------------------------------------------------ observations
ParseCalls == SelectSeq(calls, LAMBDA c : c.step = "parse")
OcrCalls == SelectSeq(calls, LAMBDA c : c.step = "ocr")

\* The ledger as the caller will see it: the merged entries, then the
\* entries ocr_node still holds in its local list.
Ledger ==
    state.usage \o (IF ocr_local.some THEN ocr_local.val.usage_entries ELSE <<>>)
ParseLedger == SelectSeq(Ledger, LAMBDA u : u.step = "parse")
OcrLedger == SelectSeq(Ledger, LAMBDA u : u.step = "ocr")

\* A parse attempt succeeded: the provider answered and the answer validates
ParseSucceeded(c) == c.reply.ok /\ validate_llm_response(c.reply.content).success

\* The validation errors a failed parse attempt leaves in its result
AttemptErrors(c) ==
    IF c.reply.ok THEN validate_llm_response(c.reply.content).errors
    ELSE <<c.reply.message>>

ChainModels(chain, n) == [i \in 1..n |-> chain[i].model]
LedgerModels(ledger) == [i \in 1..Len(ledger) |-> ledger[i].model]

Finished == pc = "returned"
Outcome == result.val

\* ------------------------------------------------------------ C1
\* C1: when the attempts before the last parse-chain entry fail and the
\* last entry succeeds, the run returns success=true with the data of that
\* last attempt, the ledger has exactly one 'parse' entry per chain entry in
\* chain order, and no parse call ever follows a successful one.
C1_EscalationEndsInSuccess ==
    /\ \A i \in 1..Len(ParseCalls) :
          i < Len(ParseCalls) => ~ParseSucceeded(ParseCalls[i])
    /\ (/\ Finished
        /\ Len(ParseCalls) = Len(state.parse_chain)
        /\ ParseSucceeded(ParseCalls[Len(ParseCalls)]))
       => /\ route_parse_result(state) = "done"
          /\ Outcome.success
          /\ Outcome.data = Some(ParseCalls[Len(ParseCalls)].reply.content)
          /\ Outcome.error = None
          /\ Len(ParseLedger) = Len(state.parse_chain)
          /\ LedgerModels(ParseLedger)
               = ChainModels(state.parse_chain, Len(state.parse_chain))

C1_Witness ==
    /\ Finished
    /\ Len(state.parse_chain) = 2
    /\ Len(ParseCalls) = 2
    /\ ~ParseCalls[1].reply.ok
    /\ ParseSucceeded(ParseCalls[2])
    /\ Outcome.success

\* ------------------------------------------------------------ C2
\* C2: when every parse-chain entry fails, the run returns success=false
\* with no data, the ledger has one 'parse' entry per chain entry in chain
\* order, and the error is the exhaustion message followed by the joined
\* validation errors of the last attempt alone.
C2_ExhaustionEndsInFail ==
    (/\ Finished
     /\ Len(ParseCalls) = Len(state.parse_chain)
     /\ ~ParseSucceeded(ParseCalls[Len(ParseCalls)]))
    => /\ route_parse_result(state) = "fail"
       /\ ~Outcome.success
       /\ Outcome.data = None
       /\ Len(ParseLedger) = Len(state.parse_chain)
       /\ LedgerModels(ParseLedger)
            = ChainModels(state.parse_chain, Len(state.parse_chain))
       /\ Outcome.error.some
       /\ Head(Outcome.error.val) = EXHAUSTED_PREFIX
       /\ LET errors == AttemptErrors(ParseCalls[Len(ParseCalls)])
              pieces == Tail(Outcome.error.val)
          IN /\ Len(pieces) = 2 * Len(errors) - 1
             /\ \A i \in 1..Len(errors) : pieces[2 * i - 1] = errors[i]
             /\ \A i \in 1..(Len(errors) - 1) : pieces[2 * i] = "; "

C2_Witness ==
    /\ Finished
    /\ Len(state.parse_chain) = 2
    /\ Len(ParseCalls) = 2
    /\ ParseCalls[1].reply.ok /\ ParseCalls[1].reply.content = "not_json"
    /\ ParseCalls[2].reply.ok /\ ParseCalls[2].reply.content = "wrong_shape"
    /\ ~Outcome.success

\* ------------------------------------------------------------ C3
\* The route the precedence list of the claim prescribes
PrescribedOcrRoute ==
    CASE state.error.some -> "parse"
      [] ~state.error.some /\ state.ocr_preference = "skip" -> "parse"
      [] ~state.error.some /\ state.ocr_preference # "skip"
            /\ Len(state.ocr_chain) = 0 -> "parse"
      [] ~state.error.some /\ state.ocr_preference = "force"
            /\ Len(state.ocr_chain) > 0 -> "ocr"
      [] ~state.error.some /\ state.ocr_preference = "auto"
            /\ Len(state.ocr_chain) > 0 ->
               IF score_quality(state.text).is_sufficient THEN "parse" ELSE "ocr"

\* C3: the step out of check_ocr follows the precedence error > skip >
\* empty chain > force > auto-by-quality; force with an empty chain goes to
\* parse and a recorded error overrides force.
C3_RouteOcrPrecedence ==
    [][pc = "check_ocr" =>
          /\ pc' = PrescribedOcrRoute
          /\ (state.ocr_preference = "force" /\ Len(state.ocr_chain) = 0
                => pc' = "parse")
          /\ (state.ocr_preference = "force" /\ state.error.some
                => pc' = "parse")
          /\ (state.ocr_preference = "force" /\ Len(state.ocr_chain) > 0
                /\ ~state.error.some => pc' = "ocr")]_vars

C3_Witness ==
    /\ pc = "parse"
    /\ state.ocr_preference = "force"
    /\ Len(state.ocr_chain) = 0
    /\ ~state.error.some
    /\ ~state.ocr_attempted
    /\ calls = <<>>

\* ------------------------------------------------------------ C4
\* The extractor refused the bytes of a recognised format
ExtractionFailed ==
    LET r == extract_text(state.content, state.content_type, state.filename)
    IN r.kind = "raise" /\ r.type = "ExtractionError"

ExtractionMessage ==
    <<extract_text(state.content, state.content_type, state.filename).message>>

\* C4: after extract_node recorded an extraction error the run goes through
\* check_ocr, parse and check_parse only, makes no provider call, keeps the
\* ledger empty and the cursors at 0, never changes the error, and returns
\* success=false, no data and that same error.
C4_ExtractionErrorIsTerminal ==
    (ExtractionFailed /\ pc # "extract")
    => /\ pc \in {"check_ocr", "parse", "check_parse", "END", "returned"}
       /\ state.error = Some(ExtractionMessage)
       /\ calls = <<>>
       /\ Ledger = <<>>
       /\ state.current_parse_index = 0
       /\ state.current_ocr_index = 0
       /\ ~state.ocr_attempted
       /\ (pc = "END" => route_parse_result(state) = "fail")
       /\ (Finished => /\ ~Outcome.success
                       /\ Outcome.data = None
                       /\ Outcome.error = Some(ExtractionMessage))

C4_Witness ==
    /\ Finished
    /\ ExtractionFailed
    /\ state.ocr_preference = "force"
    /\ Len(state.ocr_chain) > 0
    /\ Outcome.error = Some(ExtractionMessage)

\* ------------------------------------------------------------ C5
\* C5: a failure in any step surfaces as a PipelineResult with
\* success=false and an error string; in particular a page-rendering
\* failure inside the OCR step (an ExtractionError of pdf_pages_to_images)
\* never leaves run_pipeline as an exception.
C5_RenderFailureSurfacesAsResult ==
    /\ ~(pc = "raised" /\ raised.val.node = "ocr"
            /\ raised.val.type = "ExtractionError")
    /\ (Finished /\ ~Outcome.success => Outcome.error.some)

\* ------------------------------------------------------------ C6
\* The OCR node returned with the text of a chain entry
OcrSucceeded == pc = "check_ocr_quality" /\ state.ocr_text.some

\* C6: the OCR step walks the chain from cursor 0: while it runs, every
\* attempt so far failed at the provider and left one zero-usage 'ocr'
\* entry and one cursor step; when entry k (0-based) succeeds the ledger
\* is those k zero-usage entries in chain order plus one entry with the
\* token counts of the answer, current_ocr_index = k and ocr_text is the
\* answered text.
C6_OcrChainWalk ==
    /\ ocr_local.some =>
          /\ ocr_local.val.current_index = Len(ocr_local.val.usage_entries)
          /\ ocr_local.val.current_index = Len(OcrCalls)
          /\ ocr_local.val.current_index <= Len(state.ocr_chain)
          /\ \A i \in 1..Len(OcrCalls) :
                /\ ~OcrCalls[i].reply.ok
                /\ ocr_local.val.usage_entries[i]
                     = UsageEntry("ocr", state.ocr_chain[i].model, 0, 0)
    /\ OcrSucceeded =>
          LET k == state.current_ocr_index
          IN /\ k < Len(state.ocr_chain)
             /\ Len(state.usage) = k + 1
             /\ \A i \in 1..k :
                   /\ state.usage[i] = UsageEntry("ocr", state.ocr_chain[i].model, 0, 0)
                   /\ ~OcrCalls[i].reply.ok
             /\ state.usage[k + 1].step = "ocr"
             /\ state.usage[k + 1].model = state.ocr_chain[k + 1].model
             /\ IF state.content.pages = 0
                THEN /\ OcrCalls = <<>>
                     /\ state.usage[k + 1].input_tokens = 0
                     /\ state.usage[k + 1].output_tokens = 0
                     /\ state.ocr_text = Some(EmptyText)
                ELSE /\ Len(OcrCalls) = k + 1
                     /\ OcrCalls[k + 1].reply.ok
                     /\ state.usage[k + 1].input_tokens
                          = OcrCalls[k + 1].reply.usage.input_tokens
                     /\ state.usage[k + 1].output_tokens
                          = OcrCalls[k + 1].reply.usage.output_tokens
                     /\ state.ocr_text = Some(OcrCalls[k + 1].reply.content)

C6_Witness ==
    /\ OcrSucceeded
    /\ state.current_ocr_index = 1
    /\ Len(state.usage) = 2
    /\ state.usage[1].input_tokens = 0
    /\ state.usage[2].input_tokens = 5
    /\ state.ocr_text = Some(LongerText)

\* ------------------------------------------------------------ C7
\* The run with the same upload and chains but OCR skipped, fed the given
\* parse-provider answers in order: the nodes composed along the graph.
RECURSIVE RunSkippingOcr(_, _, _)
RunSkippingOcr(st, node, replies) ==
    CASE node = "extract" ->
            LET r == extract_node(st)
            IN IF r.kind = "raise" THEN [kind |-> "raised"]
               ELSE RunSkippingOcr(Merge(st, r.val), "check_ocr", replies)
      [] node = "check_ocr" ->
            LET next == Merge(st, check_ocr_node(st))
            IN RunSkippingOcr(next, route_ocr(next), replies)
      [] node = "parse" ->
            IF Truthy(st.error)
            THEN RunSkippingOcr(st, "check_parse", replies)
            ELSE LET r == parse_node(st, IF replies = <<>>
                                         THEN [ok |-> FALSE, message |-> "no answer"]
                                         ELSE Head(replies))
                 IN IF r.kind = "raise" THEN [kind |-> "raised"]
                    ELSE IF replies = <<>> THEN [kind |-> "starved"]
                    ELSE RunSkippingOcr(Merge(st, r.val), "check_parse",
                                        Tail(replies))
      [] node = "check_parse" ->
            LET next == Merge(st, check_parse_node(st))
                route == route_parse_result(next)
            IN IF route = "retry" THEN RunSkippingOcr(next, "parse", replies)
               ELSE [kind |-> "result", val |-> PipelineResult(next)]
      [] OTHER -> [kind |-> "unexpected"]

SkippedRun ==
    RunSkippingOcr(initial_state(state.content, state.content_type, state.filename,
                                 state.parse_chain, state.ocr_chain, "skip"),
                   "extract",
                   [i \in 1..Len(ParseCalls) |-> ParseCalls[i].reply])

\* Every entry of the OCR chain was tried and raised a provider error
OcrChainExhausted ==
    /\ state.ocr_attempted
    /\ Len(state.ocr_chain) > 0
    /\ Len(OcrCalls) = Len(state.ocr_chain)
    /\ \A i \in 1..Len(OcrCalls) : ~OcrCalls[i].reply.ok

\* C7: when every OCR-chain entry raised a provider error, no error is
\* recorded by the OCR stage, ocr_attempted is true, ocr_text is null, the
\* working text is the algorithmic text, the run goes on to parse, and it
\* returns the success flag, data and error of the run that skips OCR and
\* gets the same parse answers; the ledger is that run's ledger after the
\* zero-usage 'ocr' entries.
C7_OcrExhaustionDegrades ==
    OcrChainExhausted =>
       /\ pc \in {"check_ocr_quality", "parse", "check_parse", "END", "returned",
                  "raised"}
       /\ (pc = "raised" => raised.val.node = "parse" /\ SkippedRun.kind = "raised")
       /\ state.ocr_text = None
       /\ state.text = state.extraction_result.val.text
       /\ (ParseCalls = <<>> /\ pc \in {"check_ocr_quality", "parse"}
             => state.error = None)
       /\ Finished =>
             /\ SkippedRun.kind = "result"
             /\ Outcome.success = SkippedRun.val.success
             /\ Outcome.data = SkippedRun.val.data
             /\ Outcome.error = SkippedRun.val.error
             /\ Outcome.metadata.usage
                  = [i \in 1..Len(state.ocr_chain) |->
                        UsageEntry("ocr", state.ocr_chain[i].model, 0, 0)]
                    \o SkippedRun.val.metadata.usage

C7_Witness ==
    /\ Finished
    /\ OcrChainExhausted
    /\ Len(state.ocr_chain) = 2
    /\ Outcome.success
    /\ Len(Outcome.metadata.usage) = 3

\* ------------------------------------------------------------ C8
\* C8: the step out of check_ocr_quality leaves the OCR text as the working
\* text exactly when the OCR text is non-null and strictly longer than the
\* working text; otherwise (null, empty, shorter, equal length) the working
\* text is unchanged, whatever the OCR preference.
C8_OcrTextOnlyIfStrictlyLonger ==
    [][pc = "check_ocr_quality" =>
          /\ pc' = "parse"
          /\ state'.text =
               IF state.ocr_text.some /\ Len(state.ocr_text.val) > Len(state.text)
               THEN state.ocr_text.val
               ELSE state.text
          /\ \A k \in DOMAIN state \ {"text"} : state'[k] = state[k]]_vars

C8_Witness ==
    /\ pc = "parse"
    /\ state.ocr_preference = "force"
    /\ state.ocr_text = Some(OtherShortText)
    /\ state.text = ShortText
    /\ calls # <<>>

\* ------------------------------------------------------------ C9
\* check_ocr_quality replaced the algorithmic text by the OCR text
OcrTextSelected ==
    /\ state.ocr_text.some
    /\ state.extraction_result.some
    /\ Len(state.ocr_text.val) > Len(state.extraction_result.val.text)

\* C9: ocr_used is true exactly when OCR text was produced and selected
\* over the algorithmic text, and extraction_method is 'ocr' exactly then.
C9_OcrUsedIffSelected ==
    Finished =>
       /\ Outcome.metadata.ocr_used <=> OcrTextSelected
       /\ Outcome.metadata.extraction_method
            = IF Outcome.metadata.ocr_used THEN "ocr" ELSE "algorithmic"

\* ------------------------------------------------------------ C10
\* C10: the ledger and the provider call attempts correspond one to one in
\* order: same length, same step and model at each position, and zero
\* token counts for a failed attempt.
C10_LedgerMatchesCalls ==
    /\ Len(Ledger) = Len(calls)
    /\ \A i \in 1..Len(Ledger) :
          i <= Len(calls) =>
             /\ Ledger[i].step = calls[i].step
             /\ Ledger[i].model = calls[i].model
             /\ (~calls[i].reply.ok => /\ Ledger[i].input_tokens = 0
                                       /\ Ledger[i].output_tokens = 0)

\* ------------------------------------------------------------ C11
\* The OCR cursor in effect: ocr_node's local while its loop runs, the
\* state's key otherwise
OcrCursor ==
    IF ocr_local.some THEN ocr_local.val.current_index ELSE state.current_ocr_index

\* C11: no step of a run lowers current_parse_index or current_ocr_index,
\* and the cursor ocr_node carries through its loop never falls below the
\* cursor that was in effect before the step.
C11_CursorsNeverDecrease ==
    [][/\ state'.current_parse_index >= state.current_parse_index
       /\ state'.current_ocr_index >= state.current_ocr_index
       /\ ocr_local'.some => ocr_local'.val.current_index >= OcrCursor]_vars

C11_Witness ==
    /\ Finished
    /\ state.current_ocr_index = 1
    /\ state.current_parse_index = 1
    /\ Len(OcrCalls) = 2
    /\ Len(ParseCalls) = 2
    /\ Truthy(state.error)

\* ------------------------------------------------------------ C12
\* The step is a parse attempt whose provider call failed
ProviderErrorStep ==
    /\ pc = "parse"
    /\ Len(calls') = Len(calls) + 1
    /\ ~calls'[Len(calls')].reply.ok

\* The state holds a failed parse attempt that check_parse_node will act on
FailedAttemptPending ==
    /\ pc = "check_parse"
    /\ ~Truthy(state.error)
    /\ state.parse_result.some
    /\ ~state.parse_result.val.success

\* C12: a provider error in a parse attempt becomes a failed result with
\* one zero-usage ledger entry and goes to check_parse like any other
\* attempt; after a failed attempt of any kind the run goes back to parse
\* with the cursor advanced by one when an entry remains, and ends with an
\* error and no data when none remains.
C12_FailureKindDoesNotRoute ==
    [][/\ ProviderErrorStep =>
             /\ pc' = "check_parse"
             /\ state'.parse_result.some
             /\ ~state'.parse_result.val.success
             /\ state'.parse_result.val.validation_errors
                   = <<calls'[Len(calls')].reply.message>>
             /\ state'.usage
                   = Append(state.usage,
                            UsageEntry("parse", calls'[Len(calls')].model, 0, 0))
       /\ FailedAttemptPending =>
             IF state.current_parse_index + 1 < Len(state.parse_chain)
             THEN /\ pc' = "parse"
                  /\ state'.current_parse_index = state.current_parse_index + 1
                  /\ ~Truthy(state'.error)
             ELSE /\ pc' = "END"
                  /\ Truthy(state'.error)
                  /\ ~state'.resume_data.some]_vars

C12_Witness ==
    /\ Finished
    /\ Len(ParseCalls) = 2
    /\ ~ParseCalls[1].reply.ok
    /\ ParseCalls[2].reply.ok
    /\ ParseCalls[2].reply.content = "wrong_shape"
    /\ ~Outcome.success
    /\ Outcome.error.some

\* ------------------------------------------------------------ C13
\* The request leaves OCR to the quality gate and the algorithmic text
\* passed it
AutoWithSufficientText ==
    /\ state.ocr_preference = "auto"
    /\ state.text_quality.some
    /\ state.text_quality.val.is_sufficient

\* C13: with ocr_preference 'auto' and algorithmic text that passes the
\* quality gate the run never stands in the OCR node or after it, no OCR
\* provider call is made, the ledger has no 'ocr' entry, ocr_attempted
\* stays false and the result reports ocr_used false, for any OCR chain.
C13_AutoSufficientNeverOcr ==
    AutoWithSufficientText =>
       /\ pc \notin {"ocr", "check_ocr_quality"}
       /\ ~ocr_local.some
       /\ OcrCalls = <<>>
       /\ OcrLedger = <<>>
       /\ ~state.ocr_attempted
       /\ ~state.ocr_text.some
       /\ Finished => /\ ~Outcome.metadata.ocr_used
                       /\ Outcome.metadata.extraction_method = "algorithmic"

C13_Witness ==
    /\ Finished
    /\ AutoWithSufficientText
    /\ Len(state.ocr_chain) = 2
    /\ Outcome.success
    /\ Len(Outcome.metadata.usage) = 1

\* ============================================================ configuration
\* A configuration string is the sequence of its pieces: the characters
\* parse_chain looks at ("," "/" and blanks) one by one, every other run of
\* characters kept whole.
MaxEntries == 3

Range(s) == { s[i] : i \in 1..Len(s) }

RECURSIVE lstrip(_)
lstrip(s) == IF s # <<>> /\ isspace(Head(s)) THEN lstrip(Tail(s)) ELSE s

RECURSIVE rstrip(_)
rstrip(s) ==
    IF s # <<>> /\ isspace(s[Len(s)]) THEN rstrip(SubSeq(s, 1, Len(s) - 1)) ELSE s

\* str.strip()
strip(s) == rstrip(lstrip(s))

\* str.lower()
lower(s) ==
    [i \in 1..Len(s) |-> IF s[i] \in {"None", "NONE"} THEN "none" ELSE s[i]]

\* position of the first sep in s, 0 if there is none
find(s, sep) ==
    IF sep \notin Range(s) THEN 0
    ELSE CHOOSE i \in 1..Len(s) : s[i] = sep /\ \A j \in 1..(i - 1) : s[j] # sep

RECURSIVE split(_, _)
\* str.split(sep): the parts between separators, always at least one
split(s, sep) ==
    IF find(s, sep) = 0 THEN <<s>>
    ELSE <<SubSeq(s, 1, find(s, sep) - 1)>>
            \o split(SubSeq(s, find(s, sep) + 1, Len(s)), sep)

\* str.split(sep, 1) that cuts at the last separator
split_once_at_last(s, sep) ==
    LET k == CHOOSE i \in 1..Len(s) :
                s[i] = sep /\ \A j \in (i + 1)..Len(s) : s[j] # sep
    IN <<SubSeq(s, 1, k - 1), SubSeq(s, k + 1, Len(s))>>

\* str.split(sep, 1) of a string that contains sep
split_once(s, sep) ==
    <<SubSeq(s, 1, find(s, sep) - 1), SubSeq(s, find(s, sep) + 1, Len(s))>>

\* the messages of parse_chain's three errors
EmptyEntryError(field_name) ==
    Raised("ValueError", <<field_name, ": empty entry in chain">>)
MissingPrefixError(field_name, entry) ==
    Raised("ValueError",
           <<field_name, ": entry '">> \o entry
              \o <<"' is missing a provider prefix">>)
UnknownProviderError(field_name, provider, entry) ==
    Raised("ValueError",
           <<field_name, ": unknown provider '">> \o provider
              \o <<"' in entry '">> \o entry \o <<"'">>)

\* a provider text is registered: it is one of the registered names
IsRegistered(provider) ==
    Len(provider) = 1 /\ provider[1] \in REGISTERED_PROVIDERS

\* the entry.split("/", 1) of parse_chain
split_entry(entry) == split_once(entry, "/")

RECURSIVE parse_entries_prefix_first(_, _, _)
\* a loop that looks for the separator before it looks for an empty entry
parse_entries_prefix_first(entries, field_name, refs) ==
    IF entries = <<>> THEN Returned(refs)
    ELSE LET entry == strip(Head(entries))
             provider == split_entry(entry)[1]
             model == split_entry(entry)[2]
         IN IF "/" \notin Range(entry)
            THEN MissingPrefixError(field_name, entry)
            ELSE IF entry = <<>>
            THEN EmptyEntryError(field_name)
            ELSE IF ~IsRegistered(provider)
            THEN UnknownProviderError(field_name, provider, entry)
            ELSE parse_entries_prefix_first(Tail(entries), field_name,
                              Append(refs, ModelRef(provider[1], model)))

RECURSIVE parse_entries(_, _, _)
\* the loop of parse_chain: the entries still to read, the refs collected
parse_entries(entries, field_name, refs) ==
    IF entries = <<>> THEN Returned(refs)
    ELSE LET entry == strip(Head(entries))
             provider == split_entry(entry)[1]
             model == split_entry(entry)[2]
         IN IF entry = <<>>
            THEN EmptyEntryError(field_name)
            ELSE IF "/" \notin Range(entry)
            THEN MissingPrefixError(field_name, entry)
            ELSE IF ~IsRegistered(provider)
            THEN UnknownProviderError(field_name, provider, entry)
            ELSE parse_entries(Tail(entries), field_name,
                               Append(refs, ModelRef(provider[1], model)))

parse_chain(chain_str, field_name) ==
    parse_entries(split(chain_str, ","), field_name, <<>>)

\* ------------------------------------------------------------ Settings
PARSE_FIELD == "DEFAULT_PARSE_MODELS"
OCR_FIELD == "DEFAULT_OCR_MODELS"

\* the chain is switched off: empty or "none" in any letter case
IsNoneSentinel(raw) == raw = <<>> \/ lower(raw) = <<"none">>

\* a validator that takes the sentinel for the parse chain as well
_validate_model_chains_parse_optional(self) ==
    LET parse_raw == strip(self[PARSE_FIELD])
        ocr_raw == strip(self[OCR_FIELD])
    IN IF ~IsNoneSentinel(parse_raw)
          /\ parse_chain(parse_raw, PARSE_FIELD).kind = "raise"
       THEN parse_chain(parse_raw, PARSE_FIELD)
       ELSE IF ~IsNoneSentinel(ocr_raw)
               /\ parse_chain(ocr_raw, OCR_FIELD).kind = "raise"
       THEN parse_chain(ocr_raw, OCR_FIELD)
       ELSE Returned(self)

\* Settings._validate_model_chains: the settings object, or the error
_validate_model_chains(self) ==
    LET parse_raw == strip(self[PARSE_FIELD])
        ocr_raw == strip(self[OCR_FIELD])
    IN IF IsNoneSentinel(parse_raw)
       THEN Raised("ValueError",
                   <<PARSE_FIELD, " is required and cannot be 'none'">>)
       ELSE IF parse_chain(parse_raw, PARSE_FIELD).kind = "raise"
       THEN parse_chain(parse_raw, PARSE_FIELD)
       ELSE IF ~IsNoneSentinel(ocr_raw)
               /\ parse_chain(ocr_raw, OCR_FIELD).kind = "raise"
       THEN parse_chain(ocr_raw, OCR_FIELD)
       ELSE Returned(self)

\* Settings.ocr_model_chain
ocr_model_chain(self) ==
    LET raw == strip(self[OCR_FIELD])
    IN IF IsNoneSentinel(raw) THEN Returned(<<>>)
       ELSE parse_chain(raw, OCR_FIELD)

\* Settings.parse_model_chain
parse_model_chain(self) == parse_chain(strip(self[PARSE_FIELD]), PARSE_FIELD)

\* ------------------------------------------------------------ loading
\* Entry texts a chain string is put together from
FLASH_ENTRY == <<"openrouter", "/", "google", "/", "gemini-flash-1.5">>

EntryTexts ==
    { FLASH_ENTRY,
      <<" ", "openrouter", "/", "openai", "/", "gpt-4o-mini", " ">>,
      <<"anthropic", "/", "claude-haiku">>,
      <<"fakeprovider", "/", "some-model">>,
      <<"/", "some-model">>,
      <<"just-a-model-name">>,
      <<>>,
      <<" ">>,
      <<"none">>,
      <<"None">>,
      <<" ", "NONE", " ">> }

RECURSIVE JoinEntries(_)
\* ",".join(entries) of entry texts
JoinEntries(entries) ==
    IF Len(entries) = 1 THEN entries[1]
    ELSE entries[1] \o <<",">> \o JoinEntries(Tail(entries))

\* chain strings of one to n entries
ChainStrings(n) ==
    UNION { { JoinEntries(es) : es \in [1..k -> EntryTexts] } : k \in 1..n }

\* Settings fields as the tests configure them when not overridden
DEFAULTS == [f \in {PARSE_FIELD, OCR_FIELD} |-> FLASH_ENTRY]

ConfigInit ==
    /\ RunIdle
    /\ ProviderIdle
    /\ ConcurrentIdle
    /\ UnitIdle
    /\ LimitIdle
    /\ \E field \in {PARSE_FIELD, OCR_FIELD}, chain_str \in ChainStrings(MaxEntries) :
          environ = Some([DEFAULTS EXCEPT ![field] = chain_str])
    /\ parsed = None
    /\ settings = None
    /\ parse_refs = None
    /\ ocr_refs = None
    /\ resolution = None

\* parse_chain(chain_str, field_name) called on a configured string
ParseChain ==
    /\ parsed = None
    /\ \E field \in {PARSE_FIELD, OCR_FIELD} :
          parsed' = Some([field_name |-> field,
                          chain_str |-> environ.val[field],
                          out |-> parse_chain(environ.val[field], field)])
    /\ UNCHANGED <<environ, settings, parse_refs, ocr_refs, resolution>>
    /\ UNCHANGED outside_config

\* Settings(**environ): the model validator runs
ConstructSettings ==
    /\ settings = None
    /\ settings' = Some(_validate_model_chains(environ.val))
    /\ UNCHANGED <<environ, parsed, parse_refs, ocr_refs, resolution>>
    /\ UNCHANGED outside_config

ReadParseModelChain ==
    /\ settings.some /\ settings.val.kind = "return"
    /\ parse_refs = None
    /\ parse_refs' = Some(parse_model_chain(settings.val.val))
    /\ UNCHANGED <<environ, parsed, settings, ocr_refs, resolution>>
    /\ UNCHANGED outside_config

ReadOcrModelChain ==
    /\ settings.some /\ settings.val.kind = "return"
    /\ ocr_refs = None
    /\ ocr_refs' = Some(ocr_model_chain(settings.val.val))
    /\ UNCHANGED <<environ, parsed, settings, parse_refs, resolution>>
    /\ UNCHANGED outside_config

\* the chain a pipeline step walks, as read from the settings
ReadChain(step) == IF step = "parse" THEN parse_refs ELSE ocr_refs

\* get_provider(model_ref) as a parse or OCR step calls it for a chain entry
ResolveProvider ==
    /\ resolution = None
    /\ \E step \in {"parse", "ocr"} :
          /\ ReadChain(step).some /\ ReadChain(step).val.kind = "return"
          /\ \E i \in 1..Len(ReadChain(step).val.val) :
                resolution' = Some([step |-> step,
                                    model_ref |-> ReadChain(step).val.val[i],
                                    out |-> get_provider(ReadChain(step).val.val[i])])
    /\ UNCHANGED <<environ, parsed, settings, parse_refs, ocr_refs>>
    /\ UNCHANGED outside_config

ConfigNext ==
    \/ ParseChain
    \/ ConstructSettings
    \/ ReadParseModelChain
    \/ ReadOcrModelChain
    \/ ResolveProvider

ConfigSpec == ConfigInit /\ [][ConfigNext]_vars

\* ------------------------------------------------------------ C14
\* C14: every entry of a chain that the settings accept and hand out
\* resolves to a provider instance when a parse or OCR step asks for it.
C14_AcceptedChainsResolve ==
    resolution.some => resolution.val.out.kind = "return"

\* ------------------------------------------------------------ chain strings
\* The entries of a chain string, read off the positions of its commas
Commas(s) == { i \in 1..Len(s) : s[i] = "," }
EntryCount(s) == Cardinality(Commas(s)) + 1

\* position of the k-th comma; 0 before the first, Len + 1 after the last
CommaAt(s, k) ==
    IF k = 0 THEN 0
    ELSE IF k > Cardinality(Commas(s)) THEN Len(s) + 1
    ELSE CHOOSE i \in Commas(s) : Cardinality({ j \in Commas(s) : j < i }) = k - 1

EntryAt(s, k) == SubSeq(s, CommaAt(s, k - 1) + 1, CommaAt(s, k) - 1)

\* an entry without its leading and trailing blanks
Trimmed(e) ==
    LET inked == { i \in 1..Len(e) : e[i] # " " }
    IN IF inked = {} THEN <<>>
       ELSE SubSeq(e, CHOOSE i \in inked : \A j \in inked : i <= j,
                      CHOOSE i \in inked : \A j \in inked : i >= j)

\* what is wrong with a trimmed entry, by the first rule it breaks
EntryDefect(t) ==
    IF t = <<>> THEN "empty"
    ELSE IF \A i \in 1..Len(t) : t[i] # "/" THEN "missing_prefix"
    ELSE IF ~(t[2] = "/" /\ t[1] \in REGISTERED_PROVIDERS) THEN "unknown_provider"
    ELSE "valid"

Defective(s) ==
    { k \in 1..EntryCount(s) : EntryDefect(Trimmed(EntryAt(s, k))) # "valid" }

\* only blanks around at most one "none" word, in any letter case
Sentinel(s) ==
    /\ \A i \in 1..Len(s) : s[i] \in {" ", "none", "None", "NONE"}
    /\ Cardinality({ i \in 1..Len(s) : s[i] # " " }) <= 1

\* ------------------------------------------------------------ C15
\* C15: when the OCR chain setting is the sentinel the settings are built
\* as if it were absent and ocr_model_chain is the empty chain; when the
\* parse chain setting is the sentinel construction fails with a
\* configuration error; and a constructed Settings hands out a parse chain
\* of at least one entry.
C15_SentinelOnlyForOcr ==
    /\ (settings.some /\ Sentinel(environ.val[PARSE_FIELD])) =>
          /\ settings.val.kind = "raise"
          /\ settings.val.type = "ValueError"
          /\ settings.val.message[1] = PARSE_FIELD
    /\ (settings.some /\ Sentinel(environ.val[OCR_FIELD])
          /\ ~Sentinel(environ.val[PARSE_FIELD])
          /\ Defective(environ.val[PARSE_FIELD]) = {}) =>
          /\ settings.val = Returned(environ.val)
          /\ ocr_refs.some => ocr_refs.val = Returned(<<>>)
    /\ (settings.some /\ settings.val.kind = "return" /\ parse_refs.some) =>
          /\ parse_refs.val.kind = "return"
          /\ Len(parse_refs.val.val) >= 1

C15_Witness ==
    /\ settings.some
    /\ settings.val.kind = "return"
    /\ environ.val[OCR_FIELD] = <<" ", "NONE", " ">>
    /\ ocr_refs = Some(Returned(<<>>))
    /\ parse_refs.some
    /\ Len(parse_refs.val.val) = 1

\* ------------------------------------------------------------ C16
\* the leftmost defective entry of a chain string
LeftmostDefective(s) == CHOOSE k \in Defective(s) : \A j \in Defective(s) : k <= j

\* the error parse_chain raises for a defective trimmed entry
DefectError(field_name, t) ==
    CASE EntryDefect(t) = "empty" -> EmptyEntryError(field_name)
      [] EntryDefect(t) = "missing_prefix" -> MissingPrefixError(field_name, t)
      [] EntryDefect(t) = "unknown_provider" ->
            UnknownProviderError(field_name,
                                 SubSeq(t, 1, (CHOOSE i \in 1..Len(t) :
                                     t[i] = "/" /\ \A j \in 1..(i - 1) : t[j] # "/") - 1),
                                 t)

\* C16: a chain string with a defective entry is rejected with the error
\* of its leftmost defective entry, that entry's defect being the first of
\* empty, missing separator, unregistered provider that applies; nothing
\* is returned.
C16_LeftmostDefectWins ==
    (parsed.some /\ Defective(parsed.val.chain_str) # {}) =>
       parsed.val.out =
          DefectError(parsed.val.field_name,
                      Trimmed(EntryAt(parsed.val.chain_str,
                                      LeftmostDefective(parsed.val.chain_str))))

C16_Witness ==
    /\ parsed.some
    /\ parsed.val.chain_str
         = FLASH_ENTRY \o <<",", " ", ",">> \o <<"fakeprovider", "/", "some-model">>
    /\ parsed.val.out = EmptyEntryError(parsed.val.field_name)

\* ------------------------------------------------------------ C17
\* C17: a chain string without a defective entry yields one ModelRef per
\* entry in input order, whose provider, a "/" and whose model put together
\* give back the trimmed entry.
C17_OneRefPerEntryInOrder ==
    (parsed.some /\ Defective(parsed.val.chain_str) = {}) =>
       /\ parsed.val.out.kind = "return"
       /\ Len(parsed.val.out.val) = EntryCount(parsed.val.chain_str)
       /\ \A k \in 1..EntryCount(parsed.val.chain_str) :
             <<parsed.val.out.val[k].provider, "/">> \o parsed.val.out.val[k].model
                = Trimmed(EntryAt(parsed.val.chain_str, k))

C17_Witness ==
    /\ parsed.some
    /\ parsed.val.out.kind = "return"
    /\ Len(parsed.val.out.val) = 3
    /\ parsed.val.out.val[1] = ModelRef("anthropic", <<"claude-haiku">>)
    /\ parsed.val.out.val[2] = ModelRef("openrouter", <<"openai", "/", "gpt-4o-mini">>)
    /\ parsed.val.out.val[3] = ModelRef("openrouter", <<"google", "/", "gemini-flash-1.5">>)

\* ============================================================ provider cache
MaxResolutions == 3

\* The provider object _create_provider builds, told apart from every other
\* object by the order of its construction
new_provider(name, id) ==
    IF _create_provider(name).kind = "raise" THEN _create_provider(name)
    ELSE Returned([class |-> _create_provider(name).val,
                   api_key |-> "settings.OPENROUTER_API_KEY",
                   base_url |-> "settings.OPENROUTER_BASE_URL",
                   id |-> id])

\* dict[key] = value
Store(dict, key, value) ==
    [k \in DOMAIN dict \cup {key} |-> IF k = key THEN value ELSE dict[k]]

\* a get_provider that builds a provider on every call
get_provider_uncached(instances, ref, id) ==
    IF ref.provider \notin REGISTERED_PROVIDERS
    THEN [out |-> Raised("ValueError", "Unknown provider"),
          instances |-> instances, constructed |-> 0]
    ELSE IF new_provider(ref.provider, id).kind = "raise"
    THEN [out |-> new_provider(ref.provider, id),
          instances |-> instances, constructed |-> 0]
    ELSE [out |-> new_provider(ref.provider, id),
          instances |-> Store(instances, ref.provider,
                              new_provider(ref.provider, id).val),
          constructed |-> 1]

\* a get_provider that caches the provider before it is configured
get_provider_caches_unconfigured(instances, ref, id) ==
    IF ref.provider \notin REGISTERED_PROVIDERS
    THEN [out |-> Raised("ValueError", "Unknown provider"),
          instances |-> instances, constructed |-> 0]
    ELSE IF ref.provider \notin DOMAIN instances
    THEN (IF new_provider(ref.provider, id).kind = "raise"
          THEN [out |-> new_provider(ref.provider, id),
                instances |-> instances, constructed |-> 0]
          ELSE [out |-> new_provider(ref.provider, id),
                instances |-> Store(instances, ref.provider,
                                    [new_provider(ref.provider, id).val
                                        EXCEPT !.api_key = "", !.base_url = ""]),
                constructed |-> 1])
    ELSE [out |-> Returned(instances[ref.provider]),
          instances |-> instances, constructed |-> 0]

\* get_provider(ref) against the cache: what the call gives, the cache
\* after it, and how many objects it constructed.  id names the next object.
get_provider_cached(instances, ref, id) ==
    IF ref.provider \notin REGISTERED_PROVIDERS
    THEN [out |-> Raised("ValueError", "Unknown provider"),
          instances |-> instances, constructed |-> 0]
    ELSE IF ref.provider \notin DOMAIN instances
    THEN (IF new_provider(ref.provider, id).kind = "raise"
          THEN [out |-> new_provider(ref.provider, id),
                instances |-> instances, constructed |-> 0]
          ELSE [out |-> Returned(Store(instances, ref.provider,
                                       new_provider(ref.provider, id).val)
                                    [ref.provider]),
                instances |-> Store(instances, ref.provider,
                                    new_provider(ref.provider, id).val),
                constructed |-> 1])
    ELSE [out |-> Returned(instances[ref.provider]),
          instances |-> instances, constructed |-> 0]

\* ModelRefs a caller may ask a provider for: chain entries of requests,
\* and a name that is not registered
ResolvableRefs ==
    ModelRefs \cup { ModelRef("openai", "gpt-4o"), ModelRef("unknown", "some-model") }

\* the record of one get_provider call
Resolution(caller, ref, out) == [caller |-> caller, ref |-> ref, out |-> out]

ProviderInit ==
    /\ RunIdle
    /\ ConfigIdle
    /\ ConcurrentIdle
    /\ ProviderIdle
    /\ UnitIdle
    /\ LimitIdle

\* one get_provider(ref) call; the function does not await, so calls do not
\* overlap
GetProvider ==
    /\ Len(resolutions) < MaxResolutions
    /\ \E ref \in ResolvableRefs :
          LET r == get_provider_cached(_instances, ref, created + 1)
          IN /\ _instances' = r.instances
             /\ created' = created + r.constructed
             /\ resolutions' = Append(resolutions, Resolution("test", ref, r.out))
    /\ UNCHANGED outside_provider

ProviderNext == GetProvider

ProviderSpec == ProviderInit /\ [][ProviderNext]_vars

\* ------------------------------------------------------------ C18
\* the get_provider call a step makes, if it makes one
NewResolution == resolutions'[Len(resolutions')]

\* C18: every get_provider call that returns gives the instance that every
\* earlier returning call for the same provider name gave, whatever the
\* models asked for, and that instance is the one the cache holds; a call
\* with an unregistered name raises ValueError and leaves the cache as it
\* was.
C18_OneInstancePerProviderName ==
    [][Len(resolutions') = Len(resolutions) + 1 =>
          /\ NewResolution.out.kind = "return" =>
                /\ \A i \in 1..Len(resolutions) :
                      (/\ resolutions[i].ref.provider = NewResolution.ref.provider
                       /\ resolutions[i].out.kind = "return")
                         => resolutions[i].out.val = NewResolution.out.val
                /\ NewResolution.ref.provider \in DOMAIN _instances'
                /\ _instances'[NewResolution.ref.provider] = NewResolution.out.val
          /\ NewResolution.ref.provider \notin REGISTERED_PROVIDERS =>
                /\ NewResolution.out.kind = "raise"
                /\ NewResolution.out.type = "ValueError"
                /\ _instances' = _instances
                /\ created' = created]_vars

C18_Witness ==
    /\ Len(resolutions) = 3
    /\ resolutions[1].ref = ModelRef("openrouter", "google/gemini-flash-1.5")
    /\ resolutions[2].ref = ModelRef("unknown", "some-model")
    /\ resolutions[3].ref = ModelRef("openrouter", "openai/gpt-4o-mini")
    /\ resolutions[1].out.kind = "return"
    /\ resolutions[3].out = resolutions[1].out
    /\ DOMAIN _instances = {"openrouter"}
    /\ created = 1

\* ============================================================ concurrent requests
\* Several run_pipeline calls on one event loop.  A call is suspended while
\* a provider answers; the other calls run in the meantime.
MaxRuns == 2
Runs == 1..MaxRuns

\* the arguments of one run_pipeline call
Request(doc, parse_models, ocr_models, ocr_preference) ==
    [doc |-> doc, parse_models |-> parse_models, ocr_models |-> ocr_models,
     ocr_preference |-> ocr_preference]

FLASH == ModelRef("openrouter", "google/gemini-flash-1.5")
MINI == ModelRef("openrouter", "openai/gpt-4o-mini")

\* a scanned resume that needs OCR, and a resume with selectable text
Requests ==
    { Request(Document(Bytes("pdf", 1, EmptyText), PDF_CT, Filename("scan", ".pdf")),
              <<FLASH, MINI>>, <<FLASH>>, "auto"),
      Request(Document(Bytes("pdf", 2, GoodText), PDF_CT, Filename("resume", ".pdf")),
              <<MINI>>, <<>>, "auto") }

\* what the providers answer while requests run side by side
ConcurrentReplies(step) ==
    IF step = "ocr"
    THEN { r \in OcrReplies :
              r.ok => r.content = GoodText /\ r.usage.input_tokens = 5 }
    ELSE { r \in ParseReplies :
              r.ok => r.content = "json_resume_1" /\ r.usage.input_tokens = 5 }

\* the reply argument of a node that makes no provider call
NoReply == [ok |-> FALSE, message |-> "no call"]

\* a run_pipeline call that has not started yet
FreshRun(request) ==
    [request |-> request, pc |-> "start", state |-> None, ocr_local |-> None,
     calls |-> <<>>, raised |-> None, result |-> None]

\* an exception leaves the call
Escaped(rec, node, r) ==
    [rec EXCEPT !.pc = "raised",
                !.raised = Some([node |-> node, type |-> r.type,
                                 message |-> r.message]),
                !.ocr_local = None]

\* the locals ocr_node works with in this pass
Locals(rec) ==
    IF rec.ocr_local.some THEN rec.ocr_local.val ELSE ocr_node_entry(rec.state)

\* the call record after a node that may have called a provider
Called(rec, step, r, reply) ==
    IF r.called THEN Append(rec.calls, Call(step, r.model, reply)) ELSE rec.calls

\* One step of a run_pipeline call on the call's own record: the call
\* starts, the node it stands at acts, or the call returns.  reply is the
\* provider's answer when the node calls one.
RunStep(rec, reply) ==
    CASE rec.pc = "start" ->
            [rec EXCEPT !.state = initial_state(rec.request.doc.content,
                                                rec.request.doc.content_type,
                                                rec.request.doc.filename,
                                                rec.request.parse_models,
                                                rec.request.ocr_models,
                                                rec.request.ocr_preference),
                        !.pc = "extract"]
      [] rec.pc = "extract" ->
            LET e == extract_node(rec.state)
            IN IF e.kind = "raise" THEN Escaped(rec, "extract", e)
               ELSE [rec EXCEPT !.state = Merge(rec.state, e.val),
                                !.pc = "check_ocr"]
      [] rec.pc = "check_ocr" ->
            [rec EXCEPT !.state = Merge(rec.state, check_ocr_node(rec.state)),
                        !.pc = route_ocr(Merge(rec.state, check_ocr_node(rec.state)))]
      [] rec.pc = "ocr" ->
            LET o == ocr_node(rec.state, Locals(rec), reply)
                o_called == Called(rec, "ocr", o, reply)
            IN IF o.kind = "return"
               THEN [rec EXCEPT !.state = Merge(rec.state, o.val),
                                !.pc = "check_ocr_quality",
                                !.ocr_local = None,
                                !.calls = o_called]
               ELSE IF o.kind = "continue"
               THEN [rec EXCEPT !.ocr_local = Some(o.val), !.calls = o_called]
               ELSE [Escaped(rec, "ocr", o) EXCEPT !.calls = o_called]
      [] rec.pc = "check_ocr_quality" ->
            [rec EXCEPT !.state = Merge(rec.state, check_ocr_quality_node(rec.state)),
                        !.pc = "parse"]
      [] rec.pc = "parse" ->
            LET p == parse_node(rec.state, reply)
                p_called == Called(rec, "parse", p, reply)
            IN IF p.kind = "raise"
               THEN [Escaped(rec, "parse", p) EXCEPT !.calls = p_called]
               ELSE [rec EXCEPT !.state = Merge(rec.state, p.val),
                                !.pc = "check_parse",
                                !.calls = p_called]
      [] rec.pc = "check_parse" ->
            LET next == Merge(rec.state, check_parse_node(rec.state))
            IN [rec EXCEPT !.state = next,
                           !.pc = IF route_parse_result(next) = "retry"
                                  THEN "parse" ELSE "END"]
      [] rec.pc = "END" ->
            [rec EXCEPT !.result = Some(PipelineResult(rec.state)),
                        !.pc = "returned"]

\* the call is over: it returned a result or raised
Over(rec) == rec.pc \in {"returned", "raised"}

\* the node the call stands at is about to call a provider, and for which
\* chain entry
ProviderCall(rec) ==
    CASE rec.pc = "ocr" -> ocr_node(rec.state, Locals(rec), NoReply)
      [] rec.pc = "parse" -> parse_node(rec.state, NoReply)
      [] OTHER -> [called |-> FALSE]

\* a single PipelineState that all calls write to
Commit_one_state_for_all(all, r, rec) ==
    [q \in DOMAIN all |-> [rec EXCEPT !.request = all[q].request]]

\* the call's record after its step; every call keeps its own
Commit(all, r, rec) == [all EXCEPT ![r] = rec]

ConcurrentInit ==
    /\ RunIdle
    /\ ConfigIdle
    /\ ProviderIdle
    /\ UnitIdle
    /\ LimitIdle
    /\ _pipeline = None
    /\ runs \in [Runs -> { FreshRun(q) : q \in Requests }]
    /\ awaiting = [r \in Runs |-> None]

\* run_pipeline is called: _get_pipeline() and the initial state
StartRun(r) ==
    /\ runs[r].pc = "start"
    /\ _pipeline' = Some("CompiledStateGraph")
    /\ runs' = Commit(runs, r, RunStep(runs[r], NoReply))
    /\ UNCHANGED <<awaiting, provider_vars>>
    /\ UNCHANGED outside_concurrent

\* a node that calls no provider runs, or the call returns
Advance(r) ==
    /\ runs[r].pc # "start"
    /\ ~Over(runs[r])
    /\ ~awaiting[r].some
    /\ ~ProviderCall(runs[r]).called
    /\ runs' = Commit(runs, r, RunStep(runs[r], NoReply))
    /\ UNCHANGED <<_pipeline, awaiting, provider_vars>>
    /\ UNCHANGED outside_concurrent

\* the node resolves its provider and awaits provider.chat(...)
CallProvider(r) ==
    /\ ~awaiting[r].some
    /\ ~Over(runs[r])
    /\ runs[r].pc # "start"
    /\ ProviderCall(runs[r]).called
    /\ LET g == get_provider_cached(_instances, ProviderCall(runs[r]).model,
                                    created + 1)
       IN /\ _instances' = g.instances
          /\ created' = created + g.constructed
          /\ resolutions' = resolutions
          /\ awaiting' = [awaiting EXCEPT ![r] =
                             Some([step |-> runs[r].pc,
                                   model_ref |-> ProviderCall(runs[r]).model,
                                   provider |-> g.out])]
    /\ UNCHANGED <<_pipeline, runs>>
    /\ UNCHANGED outside_concurrent

\* the provider answers and the node finishes
Resume(r) ==
    /\ awaiting[r].some
    /\ \E reply \in ConcurrentReplies(awaiting[r].val.step) :
          runs' = Commit(runs, r, RunStep(runs[r], reply))
    /\ awaiting' = [awaiting EXCEPT ![r] = None]
    /\ UNCHANGED <<_pipeline, provider_vars>>
    /\ UNCHANGED outside_concurrent

ConcurrentNext ==
    \E r \in Runs :
       \/ StartRun(r)
       \/ Advance(r)
       \/ CallProvider(r)
       \/ Resume(r)

ConcurrentSpec == ConcurrentInit /\ [][ConcurrentNext]_vars

\* the provider answers a call has received so far, in order
RepliesOf(rec) == [i \in 1..Len(rec.calls) |-> rec.calls[i].reply]

RECURSIVE Alone(_, _)
\* The same call with no other call on the event loop: it runs from rec,
\* takes the given provider answers in order, and stops where it is over or
\* where it waits for an answer that is not given.
Alone(rec, replies) ==
    IF Over(rec) THEN rec
    ELSE IF ProviderCall(rec).called
    THEN IF replies = <<>> THEN rec
         ELSE Alone(RunStep(rec, Head(replies)), Tail(replies))
    ELSE Alone(RunStep(rec, NoReply), replies)

\* C19: at every moment of every interleaving, each run_pipeline call is
\* where the same call would be had it run alone with the same arguments
\* and the same provider answers: its PipelineState (usage ledger, cursors,
\* text, error, resume data), its result and its exception hold nothing
\* that comes from another call.
C19_RunsDoNotAffectEachOther ==
    \A r \in Runs :
       Alone(runs[r], <<>>) =
          Alone(FreshRun(runs[r].request), RepliesOf(runs[r]))

\* one call is suspended in its second provider call while the other,
\* started on a different document, has made a provider call of its own
\* and is still under way
C19_Witness ==
    \E r, q \in Runs :
       /\ r # q
       /\ runs[r].request # runs[q].request
       /\ awaiting[r].some
       /\ Len(runs[r].calls) = 1
       /\ Len(runs[q].calls) = 1
       /\ ~Over(runs[q])
       /\ runs[r].state.usage # runs[q].state.usage

\* what the awaiting call got from get_provider
Got(r) == awaiting[r].val.provider

\* C20: every get_provider call a run makes returns an OpenRouterProvider
\* built with the configured key and base URL, also when other runs have
\* resolved the provider and are still waiting for its answer; it is the
\* instance the cache holds afterwards, the instance the cache held before
\* if it held one, and the instance every run still waiting has.
C20_ConcurrentFirstUseGivesOneInstance ==
    [][\A r \in Runs :
          (awaiting'[r].some /\ ~awaiting[r].some) =>
             LET got == awaiting'[r].val.provider
                 name == awaiting'[r].val.model_ref.provider
             IN /\ got.kind = "return"
                /\ got.val.class = "OpenRouterProvider"
                /\ got.val.api_key = "settings.OPENROUTER_API_KEY"
                /\ got.val.base_url = "settings.OPENROUTER_BASE_URL"
                /\ name \in DOMAIN _instances'
                /\ _instances'[name] = got.val
                /\ name \in DOMAIN _instances => _instances[name] = got.val
                /\ \A q \in Runs :
                      (awaiting[q].some /\ awaiting[q].val.model_ref.provider = name)
                         => Got(q) = got]_vars

\* two runs wait for the same provider at the same time, the second having
\* resolved it while the first was suspended; one instance was constructed
C20_Witness ==
    /\ \A r \in Runs : awaiting[r].some
    /\ \A r, q \in Runs : Got(r) = Got(q)
    /\ created = 1
    /\ DOMAIN _instances = {"openrouter"}

\* ============================================================ provider chat call
\* OpenRouterProvider.chat and extract_content, called on their own with
\* every kind of answer the HTTP endpoint may give.

\* JSON values as Python holds them after response.json()
J_null == [t |-> "null"]
J_str(text) == [t |-> "str", s |-> text]
J_num(n) == [t |-> "num", n |-> n]
J_list(items) == [t |-> "list", items |-> items]
J_dict(fields) == [t |-> "dict", fields |-> fields]

\* not x
falsy(x) ==
    \/ x.t = "null"
    \/ (x.t = "str" /\ x.s = "")
    \/ (x.t = "num" /\ x.n = 0)
    \/ (x.t = "list" /\ x.items = <<>>)
    \/ (x.t = "dict" /\ DOMAIN x.fields = {})

\* x[name] for a string key
getitem_str(x, name) ==
    IF x.t = "dict"
    THEN IF name \in DOMAIN x.fields THEN Returned(x.fields[name])
         ELSE Raised("KeyError", name)
    ELSE Raised("TypeError", "indices must be integers or object is not subscriptable")

\* x[0]
getitem_0(x) ==
    IF x.t = "list"
    THEN IF x.items # <<>> THEN Returned(x.items[1])
         ELSE Raised("IndexError", "list index out of range")
    ELSE IF x.t = "str"
    THEN IF x.s # "" THEN Returned(J_str("first character"))
         ELSE Raised("IndexError", "string index out of range")
    ELSE IF x.t = "dict" THEN Raised("KeyError", "0")
    ELSE Raised("TypeError", "object is not subscriptable")

\* ProviderError(message, provider, model, status_code)
ProviderError(message, provider, model, status_code) ==
    [kind |-> "raise", type |-> "ProviderError", message |-> message,
     provider |-> provider, model |-> model, status_code |-> status_code]

\* The statements of the try block that looks for choices[0].message.content:
\* the content, or the exception the first failing statement raises.
first_content(payload) ==
    LET choices == getitem_str(payload, "choices")
        first == getitem_0(choices.val)
        message == getitem_str(first.val, "message")
        content == getitem_str(message.val, "content")
    IN IF choices.kind = "raise" THEN choices
       ELSE IF falsy(choices.val) THEN Raised("KeyError", "choices is empty")
       ELSE IF first.kind = "raise" THEN first
       ELSE IF message.kind = "raise" THEN message
       ELSE IF content.kind = "raise" THEN content
       ELSE IF content.val.t # "str" \/ falsy(content.val)
       THEN Raised("KeyError", "message.content is empty")
       ELSE Returned(content.val.s)

\* int(x or 0)
int_or_0(x) ==
    IF falsy(x) THEN Returned(0)
    ELSE IF x.t = "num" THEN Returned(x.n)
    ELSE IF x.t = "str" THEN Raised("ValueError", "invalid literal for int()")
    ELSE Raised("TypeError", "int() argument must be a string or a number")

\* usage.get(name, 0) of a dict
get_or_0(usage, name) ==
    IF name \in DOMAIN usage.fields THEN usage.fields[name] ELSE J_num(0)

\* extract_usage(response)
extract_usage(response) ==
    LET given == IF "usage" \in DOMAIN response.fields
                 THEN response.fields["usage"] ELSE J_null
        prompt == int_or_0(get_or_0(given, "prompt_tokens"))
        completion == int_or_0(get_or_0(given, "completion_tokens"))
    IN IF falsy(given)
       THEN Returned([input_tokens |-> 0, output_tokens |-> 0])
       ELSE IF given.t # "dict"
       THEN Raised("AttributeError", "object has no attribute 'get'")
       ELSE IF prompt.kind = "raise" THEN prompt
       ELSE IF completion.kind = "raise" THEN completion
       ELSE Returned([input_tokens |-> prompt.val, output_tokens |-> completion.val])

\* What self._client.post gave: an httpx.RequestError, or a response with a
\* status code and a body that is JSON or not.
TransportError(name) == [transport |-> "error", exc |-> name]
HttpResponse(status_code, body) ==
    [transport |-> "ok", status_code |-> status_code, body |-> body]
NotJson == [json |-> FALSE]
JsonBody(payload) == [json |-> TRUE, payload |-> payload]

\* OpenRouterProvider.chat(model, messages) given what the endpoint answers
chat(model, response) ==
    IF response.transport = "error"
    THEN ProviderError("Request to OpenRouter failed", "openrouter", model, None)
    ELSE IF response.status_code # 200
    THEN ProviderError("OpenRouter request failed with status", "openrouter",
                       model, Some(response.status_code))
    ELSE IF ~response.body.json
    THEN ProviderError("Invalid JSON in OpenRouter response", "openrouter",
                       model, Some(response.status_code))
    ELSE LET payload == response.body.payload
             content == first_content(payload)
             usage == extract_usage(payload)
         IN IF content.kind = "raise"
            THEN IF content.type = "KeyError"
                 THEN ProviderError("Unexpected OpenRouter response structure",
                                    "openrouter", model,
                                    Some(response.status_code))
                 ELSE content
            ELSE IF usage.kind = "raise" THEN usage
            ELSE Returned(payload)

\* str(response.get("model", ""))
response_model(response) ==
    IF "model" \in DOMAIN response.fields
    THEN (IF response.fields["model"].t = "str" THEN response.fields["model"].s
          ELSE "str of the value")
    ELSE ""

\* OpenRouterProvider.extract_content(response)
extract_content(response) ==
    LET content == first_content(response)
    IN IF content.kind = "raise"
       THEN IF content.type = "KeyError"
            THEN ProviderError("Unexpected OpenRouter response structure while extracting content",
                               "openrouter", response_model(response), None)
            ELSE content
       ELSE content

\* values of any JSON type that are not an object
Scalars ==
    { J_null, J_str(""), J_str("text"), J_num(0), J_num(7), J_list(<<>>) }

ASSISTANT == J_str("assistant")

\* what may stand where the message of the first choice is expected
Messages ==
    Scalars
    \cup { J_dict([role |-> ASSISTANT]) }
    \cup { J_dict([role |-> ASSISTANT, content |-> c]) : c \in Scalars }

\* what may stand where the first choice is expected
Firsts ==
    Scalars
    \cup { J_dict([index |-> J_num(0)]) }
    \cup { J_dict([index |-> J_num(0), message |-> m]) : m \in Messages }

\* what may stand where the list of choices is expected
ChoicesValues ==
    Scalars
    \cup { J_dict([error |-> J_str("text")]) }
    \cup { J_list(<<f>>) : f \in Firsts }

\* a response with the expected shape
GoodChoices ==
    J_list(<<J_dict([index |-> J_num(0),
                     message |-> J_dict([role |-> ASSISTANT,
                                         content |-> J_str("text")])])>>)

\* what may stand where the usage object is expected
UsageValues ==
    { J_null, J_str("text"), J_list(<<>>),
      J_dict([prompt_tokens |-> J_num(7), completion_tokens |-> J_num(7)]),
      J_dict([prompt_tokens |-> J_str("text"), completion_tokens |-> J_num(7)]),
      J_dict([prompt_tokens |-> J_num(7), completion_tokens |-> J_list(<<>>)]) }

\* the decoded bodies of the model
Payloads ==
    Scalars
    \cup { J_dict([id |-> J_str("gen-1")]) }
    \cup { J_dict([id |-> J_str("gen-1"), choices |-> c]) : c \in ChoicesValues }
    \cup { J_dict([id |-> J_str("gen-1"), model |-> J_str("openai/gpt-4o-mini"),
                   choices |-> J_list(<<>>)]) }
    \cup { J_dict([id |-> J_str("gen-1"), choices |-> GoodChoices, usage |-> u]) :
              u \in UsageValues }

StatusCodes == {200, 201, 404, 500}

\* what the endpoint may answer
Responses ==
    { TransportError(e) : e \in {"ConnectError", "ReadTimeout"} }
    \cup { HttpResponse(c, NotJson) : c \in StatusCodes }
    \cup { HttpResponse(c, JsonBody(J_dict([id |-> J_str("gen-1"),
                                            choices |-> GoodChoices]))) :
              c \in StatusCodes }
    \cup { HttpResponse(200, JsonBody(p)) : p \in Payloads }

ChatModels == { "google/gemini-flash-1.5", "openai/gpt-4o-mini" }

\* a call of one function on its own
Invocation(fn, arg) == [fn |-> fn, arg |-> arg]

ChatInit ==
    /\ RunIdle
    /\ ConfigIdle
    /\ ProviderIdle
    /\ ConcurrentIdle
    /\ LimitIdle
    /\ invoked \in
          { Some(Invocation("chat", [model |-> m, response |-> r])) :
               m \in ChatModels, r \in Responses }
          \cup { Some(Invocation("extract_content", p)) :
                    p \in { q \in Payloads : q.t = "dict" } }
    /\ outcome = None

\* await provider.chat(model=..., messages=...)
Chat ==
    /\ invoked.val.fn = "chat"
    /\ outcome = None
    /\ outcome' = Some(chat(invoked.val.arg.model, invoked.val.arg.response))
    /\ UNCHANGED invoked
    /\ UNCHANGED outside_unit

\* provider.extract_content(response)
ExtractContent ==
    /\ invoked.val.fn = "extract_content"
    /\ outcome = None
    /\ outcome' = Some(extract_content(invoked.val.arg))
    /\ UNCHANGED invoked
    /\ UNCHANGED outside_unit

ChatNext == Chat \/ ExtractContent

ChatSpec == ChatInit /\ [][ChatNext]_vars

\* the body has non-empty choices whose first element has a non-empty
\* string message.content
HasShape(payload) ==
    /\ payload.t = "dict"
    /\ "choices" \in DOMAIN payload.fields
    /\ payload.fields["choices"].t = "list"
    /\ payload.fields["choices"].items # <<>>
    /\ LET first == payload.fields["choices"].items[1]
       IN /\ first.t = "dict"
          /\ "message" \in DOMAIN first.fields
          /\ first.fields["message"].t = "dict"
          /\ "content" \in DOMAIN first.fields["message"].fields
          /\ first.fields["message"].fields["content"].t = "str"
          /\ first.fields["message"].fields["content"].s # ""

\* the chat call met one of the failure modes
FailureMode(response) ==
    \/ response.transport = "error"
    \/ response.status_code \notin 200..299
    \/ ~response.body.json
    \/ ~HasShape(response.body.payload)

\* the status code the error should carry
FailureStatus(response) ==
    IF response.transport = "error" THEN None ELSE Some(response.status_code)

\* C21: a chat call that meets a transport failure, a non-2xx status, a
\* non-JSON body or a body without non-empty choices[0].message.content
\* raises ProviderError with provider "openrouter", the model asked for and
\* the status code if there is one; extract_content raises ProviderError
\* for every response without that shape.
C21_FailuresBecomeProviderError ==
    (invoked.some /\ outcome.some) =>
       /\ (invoked.val.fn = "chat" /\ FailureMode(invoked.val.arg.response)) =>
             /\ outcome.val.kind = "raise"
             /\ outcome.val.type = "ProviderError"
             /\ outcome.val.provider = "openrouter"
             /\ outcome.val.model = invoked.val.arg.model
             /\ outcome.val.status_code = FailureStatus(invoked.val.arg.response)
       /\ (invoked.val.fn = "extract_content" /\ ~HasShape(invoked.val.arg)) =>
             /\ outcome.val.kind = "raise"
             /\ outcome.val.type = "ProviderError"
             /\ outcome.val.provider = "openrouter"

\* ============================================================ LLM output validation
\* validate_llm_response on the text of the output.  The text is a sequence
\* of pieces: a code fence (three backticks), the word json, a newline, a
\* blank, and the tokens of a JSON document.
FENCE == "fence"
NL == "\n"
SP == " "

\* the join of lines with newlines
RECURSIVE join_lines(_)
join_lines(lines) ==
    IF lines = <<>> THEN <<>>
    ELSE IF Len(lines) = 1 THEN lines[1]
    ELSE lines[1] \o <<NL>> \o join_lines(Tail(lines))

\* re.match of the first line against: blanks, a fence, json or nothing,
\* blanks, end of line
is_fence_line(line) ==
    LET body == strip(line)
    IN NL \notin Range(line) /\ (body = <<FENCE>> \/ body = <<FENCE, "json">>)

\* a fence stripper that removes the json tag but leaves the fences
_strip_markdown_fences_keeps_fence(raw) == strip(raw)

\* _strip_markdown_fences(raw)
_strip_markdown_fences(raw) ==
    LET text == strip(raw)
        lines == split(text, NL)
        opened == IF is_fence_line(lines[1]) THEN join_lines(Tail(lines)) ELSE text
        closed == IF opened # <<>> /\ opened[Len(opened)] = FENCE
                  THEN rstrip(SubSeq(opened, 1, Len(opened) - 1))
                  ELSE opened
    IN strip(closed)

\* JSON documents, as their tokens: a resume with a name, an object without
\* personal_info, an object whose personal_info lacks the name and whose
\* first experience lacks its required fields, and a list
JANE == <<"{", "personal_info: {name: Jane}", "}">>
NO_PERSONAL_INFO == <<"{", "experience: []", "}">>
NO_NAME == <<"{", "personal_info: {}, experience: [{company: Acme, title: Dev}]", "}">>
A_LIST == <<"[", "]">>
ValidJson == { JANE, NO_PERSONAL_INFO, NO_NAME, A_LIST }

\* texts json.loads rejects: a document cut short, no text at all, prose
CUT_SHORT == <<"{", "personal_info: {name: Jane}">>
PROSE == <<"Here is the resume:", "{", "}">>
InvalidJson == { CUT_SHORT, <<>>, PROSE }

\* json.loads(text): whitespace between tokens is insignificant; a fence or
\* any other piece that is not part of a document makes the text invalid
json_loads(text) ==
    LET tokens == SelectSeq(text, LAMBDA c : ~isspace(c))
    IN IF tokens \in ValidJson THEN Returned(tokens)
       ELSE Raised("JSONDecodeError", "Expecting value")

\* ResumeData.model_validate(loaded) followed by _format_validation_errors:
\* the model, or the list of path: message strings
model_validate(loaded) ==
    IF loaded = JANE THEN Returned("ResumeData(personal_info.name=Jane)")
    ELSE IF loaded = NO_PERSONAL_INFO
    THEN [kind |-> "raise", type |-> "ValidationError",
          errors |-> <<"personal_info: Field required">>]
    ELSE IF loaded = NO_NAME
    THEN [kind |-> "raise", type |-> "ValidationError",
          errors |-> <<"personal_info.name: Field required",
                       "experience[0].start_date: Field required">>]
    ELSE [kind |-> "raise", type |-> "ValidationError",
          errors |-> <<"Input should be a valid dictionary or object to extract fields from">>]

ValidationResult(success, data, errors, raw_json) ==
    [success |-> success, data |-> data, errors |-> errors, raw_json |-> raw_json]

\* a validation that reports schema violations next to the data
validate_text_keeps_data(raw_output) ==
    LET loaded == json_loads(_strip_markdown_fences(raw_output))
        resume_data == model_validate(loaded.val)
    IN IF loaded.kind = "raise"
       THEN ValidationResult(FALSE, None, <<"Invalid JSON: Expecting value">>, raw_output)
       ELSE IF resume_data.kind = "return"
       THEN ValidationResult(TRUE, Some(resume_data.val), <<>>, raw_output)
       ELSE ValidationResult(FALSE, Some("partial"), resume_data.errors, raw_output)

\* validate_llm_response(raw_output) on the text of the output
validate_text(raw_output) ==
    LET stripped == _strip_markdown_fences(raw_output)
        loaded == json_loads(stripped)
        resume_data == model_validate(loaded.val)
    IN IF loaded.kind = "raise"
       THEN ValidationResult(FALSE, None, <<"Invalid JSON: Expecting value">>, raw_output)
       ELSE IF resume_data.kind = "return"
       THEN ValidationResult(TRUE, Some(resume_data.val), <<>>, raw_output)
       ELSE ValidationResult(FALSE, None, resume_data.errors, raw_output)

\* a document with each token on a line of its own, indented
RECURSIVE Spread(_)
Spread(tokens) ==
    IF Len(tokens) <= 1 THEN tokens
    ELSE <<Head(tokens), NL, SP>> \o Spread(Tail(tokens))

\* the ways a model lays a document out in its answer
Wrappings ==
    { "bare", "padded", "json fence", "plain fence", "json fence with blanks",
      "fence lines with blanks", "no closing fence", "closing fence only",
      "document on the fence line", "python fence", "two fences" }

Wrap(j, wrapping) ==
    CASE wrapping = "bare" -> j
      [] wrapping = "padded" -> <<SP>> \o j \o <<NL>>
      [] wrapping = "json fence" -> <<FENCE, "json", NL>> \o j \o <<NL, FENCE>>
      [] wrapping = "plain fence" -> <<FENCE, NL>> \o j \o <<NL, FENCE>>
      [] wrapping = "json fence with blanks" ->
            <<FENCE, "json", NL, SP>> \o j \o <<SP, NL, FENCE>>
      [] wrapping = "fence lines with blanks" ->
            <<NL, FENCE, "json", SP, NL>> \o j \o <<NL, FENCE, SP, NL>>
      [] wrapping = "no closing fence" -> <<FENCE, "json", NL>> \o j
      [] wrapping = "closing fence only" -> j \o <<NL, FENCE>>
      [] wrapping = "document on the fence line" ->
            <<FENCE, "json", SP>> \o j \o <<NL, FENCE>>
      [] wrapping = "python fence" -> <<FENCE, "python", NL>> \o j \o <<NL, FENCE>>
      [] wrapping = "two fences" ->
            <<FENCE, NL, FENCE, "json", NL>> \o j \o <<NL, FENCE, NL, FENCE>>

\* the answers of the model: a document, laid out and wrapped
RawOutputs ==
    { [raw_output |-> Wrap(layout, w), document |-> d, wrapping |-> w] :
         <<d, layout>> \in { <<d, d>> : d \in ValidJson \cup InvalidJson }
                           \cup { <<d, Spread(d)>> : d \in ValidJson \cup InvalidJson },
         w \in Wrappings }

ValidationInit ==
    /\ RunIdle
    /\ ConfigIdle
    /\ ProviderIdle
    /\ ConcurrentIdle
    /\ LimitIdle
    /\ invoked \in
          { Some(Invocation("validate_llm_response", r)) : r \in RawOutputs }
          \cup { Some(Invocation("_strip_markdown_fences", r)) : r \in RawOutputs }
          \cup { Some(Invocation("extract_resume_data",
                                 [text |-> GoodText, model_ref |-> m, reply |-> r])) :
                    m \in {FLASH, ModelRef("unknown", "some-model")},
                    r \in ParseReplies }
    /\ outcome = None

\* validate_llm_response(raw_output)
Validate ==
    /\ invoked.val.fn = "validate_llm_response"
    /\ outcome = None
    /\ outcome' = Some(validate_text(invoked.val.arg.raw_output))
    /\ UNCHANGED invoked
    /\ UNCHANGED outside_unit

\* _strip_markdown_fences(raw)
StripFences ==
    /\ invoked.val.fn = "_strip_markdown_fences"
    /\ outcome = None
    /\ outcome' = Some([text |-> _strip_markdown_fences(invoked.val.arg.raw_output),
                        before |-> invoked.val.arg.raw_output,
                        times |-> 1])
    /\ UNCHANGED invoked
    /\ UNCHANGED outside_unit

\* _strip_markdown_fences applied to its own result
StripFencesAgain ==
    /\ invoked.val.fn = "_strip_markdown_fences"
    /\ outcome.some
    /\ outcome.val.times = 1
    /\ outcome' = Some([text |-> _strip_markdown_fences(outcome.val.text),
                        before |-> outcome.val.text,
                        times |-> 2])
    /\ UNCHANGED invoked
    /\ UNCHANGED outside_unit

\* await extract_resume_data(text, model_ref)
ExtractResumeData ==
    /\ invoked.val.fn = "extract_resume_data"
    /\ outcome = None
    /\ outcome' = Some(extract_resume_data(invoked.val.arg.text,
                                           invoked.val.arg.model_ref,
                                           invoked.val.arg.reply).out)
    /\ UNCHANGED invoked
    /\ UNCHANGED outside_unit

ValidationNext == Validate \/ StripFences \/ StripFencesAgain \/ ExtractResumeData

ValidationSpec == ValidationInit /\ [][ValidationNext]_vars

\* success with data and no errors, or failure without data and with errors
OneOfTheTwo(success, data, errors) ==
    \/ (success /\ data.some /\ errors = <<>>)
    \/ (~success /\ ~data.some /\ Len(errors) >= 1)

\* C22: validate_llm_response and extract_resume_data return either success
\* with data and an empty error list, or failure with no data and at least
\* one error; output that is not JSON gives exactly one error.
C22_SuccessXorErrors ==
    (invoked.some /\ outcome.some) =>
       /\ invoked.val.fn = "validate_llm_response" =>
             /\ OneOfTheTwo(outcome.val.success, outcome.val.data, outcome.val.errors)
             /\ invoked.val.arg.document \in InvalidJson =>
                   (~outcome.val.success /\ Len(outcome.val.errors) = 1)
       /\ (invoked.val.fn = "extract_resume_data" /\ outcome.val.kind = "return") =>
             OneOfTheTwo(outcome.val.val.success, outcome.val.val.data,
                         outcome.val.val.validation_errors)

\* a fenced object that breaks the schema in two places was validated
C22_Witness ==
    /\ invoked.some
    /\ invoked.val.fn = "validate_llm_response"
    /\ invoked.val.arg.document = NO_NAME
    /\ invoked.val.arg.wrapping = "json fence"
    /\ outcome.some
    /\ ~outcome.val.success
    /\ Len(outcome.val.errors) = 2

\* the three forms the claim compares
BareOrFenced == { "bare", "json fence with blanks", "json fence", "plain fence" }

\* C28: a valid JSON document validates the same bare, in a json fence and
\* in a plain fence (same success flag, data and errors as the bare
\* document), and stripping the fences of such a text a second time changes
\* nothing.
C28_FencesPreserveValidation ==
    (/\ invoked.some
     /\ outcome.some
     /\ invoked.val.fn \in {"validate_llm_response", "_strip_markdown_fences"}
     /\ invoked.val.arg.document \in ValidJson
     /\ invoked.val.arg.wrapping \in BareOrFenced) =>
       /\ invoked.val.fn = "validate_llm_response" =>
             LET bare == validate_text(invoked.val.arg.document)
             IN /\ outcome.val.success = bare.success
                /\ outcome.val.data = bare.data
                /\ outcome.val.errors = bare.errors
                /\ outcome.val.success = (invoked.val.arg.document = JANE)
       /\ invoked.val.fn = "_strip_markdown_fences" =>
             /\ SelectSeq(outcome.val.text, LAMBDA c : ~isspace(c))
                   = invoked.val.arg.document
             /\ outcome.val.times = 2 => outcome.val.text = outcome.val.before

\* a resume spread over several lines inside a json fence was validated
C28_Witness ==
    /\ invoked.some
    /\ invoked.val.fn = "validate_llm_response"
    /\ invoked.val.arg.raw_output = Wrap(Spread(JANE), "json fence")
    /\ outcome.some
    /\ outcome.val.success
    /\ outcome.val.data = Some("ResumeData(personal_info.name=Jane)")

\* ============================================================ text quality
\* score_quality called on its own with texts built to meet or miss each
\* criterion: a number of words of equal length, each starting with some
\* digits, separated by one blank, followed by blanks and newlines.

\* a word of the given length whose first characters are digits
Word(length, digits) ==
    [i \in 1..length |-> IF i <= digits THEN "1" ELSE "a"]

RECURSIVE Words(_, _, _)
Words(count, length, digits) ==
    IF count = 0 THEN <<>>
    ELSE IF count = 1 THEN Word(length, digits)
    ELSE Word(length, digits) \o <<" ">> \o Words(count - 1, length, digits)

\* trailing whitespace: newlines and blanks in turn
Padding(n) == [i \in 1..n |-> IF i % 2 = 1 THEN "\n" ELSE " "]

BuiltText(count, length, digits, padding) ==
    Words(count, length, digits) \o Padding(padding)

WordCounts == {0, 1, 19, 20, 25}
WordLengths == {1, 4, 5}
PaddingLengths == {0, 1, 60, 100}

\* the texts of the model, each with the way it was built
QualityTexts ==
    { [text |-> BuiltText(n, l, d, p), count |-> n, length |-> l, digits |-> d,
       padding |-> p] :
         n \in WordCounts, p \in PaddingLengths,
         <<l, d>> \in { <<l, d>> \in WordLengths \X (0..5) : d <= l } }

QualityInit ==
    /\ RunIdle
    /\ ConfigIdle
    /\ ProviderIdle
    /\ ConcurrentIdle
    /\ LimitIdle
    /\ invoked \in { Some(Invocation(fn, t)) :
                        fn \in {"score_quality", "is_text_sufficient"},
                        t \in QualityTexts }
    /\ outcome = None

\* score_quality(text)
ScoreQuality ==
    /\ invoked.val.fn = "score_quality"
    /\ outcome = None
    /\ outcome' = Some(score_quality(invoked.val.arg.text))
    /\ UNCHANGED invoked
    /\ UNCHANGED outside_unit

\* is_text_sufficient(text)
IsTextSufficient ==
    /\ invoked.val.fn = "is_text_sufficient"
    /\ outcome = None
    /\ outcome' = Some([is_sufficient |-> score_quality(invoked.val.arg.text).is_sufficient])
    /\ UNCHANGED invoked
    /\ UNCHANGED outside_unit

QualityNext == ScoreQuality \/ IsTextSufficient

QualitySpec == QualityInit /\ [][QualityNext]_vars

\* the three criteria, from the way the text was built
BuiltChars(t) ==
    t.count * t.length + (IF t.count > 0 THEN t.count - 1 ELSE 0) + t.padding
BuiltAlpha(t) == t.count * (t.length - t.digits)
BuiltNonWs(t) == t.count * t.length
EnoughChars(t) == BuiltChars(t) >= 100
EnoughWords(t) == t.count >= 20
EnoughAlpha(t) == BuiltNonWs(t) > 0 /\ 2 * BuiltAlpha(t) >= BuiltNonWs(t)

\* C23: score_quality and is_text_sufficient find a text sufficient exactly
\* when it has at least 100 characters, at least 20 whitespace-separated
\* words, and at least half of its non-whitespace characters alphabetic.
C23_SufficientIffAllThree ==
    (invoked.some /\ outcome.some) =>
       (outcome.val.is_sufficient
           <=> (/\ EnoughChars(invoked.val.arg)
                /\ EnoughWords(invoked.val.arg)
                /\ EnoughAlpha(invoked.val.arg)))

\* a text that meets the character and word criteria and misses the
\* alphabetic ratio by one character per word was scored insufficient
C23_Witness ==
    /\ invoked.some
    /\ outcome.some
    /\ invoked.val.fn = "score_quality"
    /\ invoked.val.arg.count = 25
    /\ invoked.val.arg.length = 5
    /\ invoked.val.arg.digits = 3
    /\ outcome.val.char_count >= 100
    /\ outcome.val.word_count >= 20
    /\ outcome.val.score_thirds = 2
    /\ ~outcome.val.is_sufficient

\* C24: for a text without any non-whitespace character, the empty text
\* included, score_quality returns alpha_ratio 0, word_count 0 and
\* insufficient.
C24_BlankTextScoresZero ==
    (/\ invoked.some
     /\ outcome.some
     /\ invoked.val.fn = "score_quality"
     /\ invoked.val.arg.count = 0) =>
       /\ outcome.val.alpha_ratio[1] = 0
       /\ outcome.val.alpha_ratio[2] # 0
       /\ outcome.val.word_count = 0
       /\ ~outcome.val.is_sufficient

\* a text of a hundred blanks and newlines was scored: long enough, and
\* still insufficient
C24_Witness ==
    /\ invoked.some
    /\ outcome.some
    /\ invoked.val.fn = "score_quality"
    /\ invoked.val.arg.count = 0
    /\ invoked.val.arg.padding = 100
    /\ outcome.val.char_count = 100
    /\ outcome.val.score_thirds = 1
    /\ outcome.val.alpha_ratio = <<0, 1>>

\* ============================================================ document kinds
\* neither the content type nor the extension of the upload is a known one
Unrecognized(content_type, filename) ==
    /\ content_type \notin
          (_PDF_CONTENT_TYPES \cup _DOCX_CONTENT_TYPES \cup _IMAGE_CONTENT_TYPES)
    /\ filename.ext \notin
          (_PDF_EXTENSIONS \cup _DOCX_EXTENSIONS \cup _IMAGE_EXTENSIONS)

\* C25: for an upload whose content type and extension are both
\* unrecognized the extraction step returns the empty extraction (no text,
\* zero pages, method none), records no error and raises nothing, and the
\* run goes on to the OCR decision.
C25_UnrecognizedKindIsEmptyExtraction ==
    (Unrecognized(state.content_type, state.filename) /\ pc # "extract") =>
       /\ pc # "raised"
       /\ state.extraction_result = Some(ExtractionResult(EmptyText, 0, "none"))
       /\ (pc = "check_ocr" => ~Truthy(state.error))

\* extract_text called on its own with every pairing of bytes, declared
\* content type and filename extension
UploadContents ==
    { Bytes("pdf", 2, GoodText), Bytes("docx", 1, ShortText),
      Bytes("junk", 0, EmptyText) }
UploadContentTypes == { PDF_CT, DOCX_CT, PNG_CT, "image/jpeg", OCTET_CT, "text/plain" }
UploadExtensions == { ".pdf", ".docx", ".png", ".jpg", ".xyz", "" }

ExtractInit ==
    /\ RunIdle
    /\ ConfigIdle
    /\ ProviderIdle
    /\ ConcurrentIdle
    /\ LimitIdle
    /\ invoked \in { Some(Invocation("extract_text",
                                     Document(c, ct, Filename("resume", ext)))) :
                        c \in UploadContents, ct \in UploadContentTypes,
                        ext \in UploadExtensions }
    /\ outcome = None

\* extract_text(content, content_type, filename)
ExtractText ==
    /\ invoked.val.fn = "extract_text"
    /\ outcome = None
    /\ outcome' = Some(extract_text(invoked.val.arg.content,
                                    invoked.val.arg.content_type,
                                    invoked.val.arg.filename))
    /\ UNCHANGED invoked
    /\ UNCHANGED outside_unit

ExtractNext == ExtractText

ExtractSpec == ExtractInit /\ [][ExtractNext]_vars

\* the extractor a content type or an extension stands for
KindOfContentType(ct) ==
    IF ct \in _PDF_CONTENT_TYPES THEN "pdf"
    ELSE IF ct \in _DOCX_CONTENT_TYPES THEN "docx"
    ELSE IF ct \in _IMAGE_CONTENT_TYPES THEN "image"
    ELSE "unrecognized"

KindOfExtension(ext) ==
    IF ext \in _PDF_EXTENSIONS THEN "pdf"
    ELSE IF ext \in _DOCX_EXTENSIONS THEN "docx"
    ELSE IF ext \in _IMAGE_EXTENSIONS THEN "image"
    ELSE "unrecognized"

\* the extractor that produced the outcome
ExtractorUsed(out) ==
    IF out.kind = "return"
    THEN (IF out.val.method = "none" THEN "image" ELSE out.val.method)
    ELSE IF out.message = "Failed to open PDF" THEN "pdf"
    ELSE IF out.message = "Failed to open DOCX" THEN "docx"
    ELSE "unrecognized"

\* C26: extract_text uses the extractor of the declared content type
\* whenever the content type is a recognized one, and the extractor of the
\* filename extension only when it is not.
C26_ContentTypeBeforeExtension ==
    (invoked.some /\ invoked.val.fn = "extract_text" /\ outcome.some) =>
       ExtractorUsed(outcome.val) =
          (IF KindOfContentType(invoked.val.arg.content_type) # "unrecognized"
           THEN KindOfContentType(invoked.val.arg.content_type)
           ELSE KindOfExtension(invoked.val.arg.filename.ext))

\* ============================================================ OCR of zero pages
\* the upload opens as a PDF and has no page to render
ZeroPages == state.content.fmt = "pdf" /\ state.content.pages = 0

\* the OCR step has been entered and left
OcrStepDone ==
    state.ocr_attempted /\ pc \in {"check_ocr_quality", "parse", "check_parse",
                                   "END", "returned"}

\* C27: for a PDF without pages the OCR step raises nothing and completes
\* on the first chain entry without any provider being resolved or called:
\* empty OCR text, one zero-usage ledger entry for that entry, cursor still
\* 0 and no error; the text of the algorithmic extraction stays the working
\* text.
C27_ZeroPagesOcrIsEmptyAndSilent ==
    ZeroPages =>
       /\ ~(pc = "raised" /\ raised.val.node = "ocr")
       /\ pc = "ocr" => (calls = <<>> /\ ~ocr_local.some)
       /\ OcrStepDone =>
             /\ state.ocr_text = Some(EmptyText)
             /\ state.current_ocr_index = 0
             /\ \A i \in 1..Len(calls) : calls[i].step # "ocr"
             /\ OcrLedger = <<UsageEntry("ocr", state.ocr_chain[1].model, 0, 0)>>
             /\ state.text = state.extraction_result.val.text
             /\ pc = "check_ocr_quality" => ~Truthy(state.error)

\* the OCR step completed for a PDF without pages whose first OCR chain
\* entry names a provider that has no implementation
C27_Witness ==
    /\ ZeroPages
    /\ pc = "parse"
    /\ state.ocr_attempted
    /\ state.ocr_chain[1].provider = "anthropic"
    /\ calls = <<>>
    /\ state.ocr_text = Some(EmptyText)

\* ============================================================ provider credentials
OPENROUTER_API_KEY == "OPENROUTER_API_KEY"
ANTHROPIC_API_KEY == "ANTHROPIC_API_KEY"
OPENAI_API_KEY == "OPENAI_API_KEY"

\* REGISTERED_PROVIDERS[provider]: the Settings fields the provider needs
CredentialFields(provider) ==
    CASE provider = "openrouter" -> <<OPENROUTER_API_KEY>>
      [] provider = "anthropic" -> <<ANTHROPIC_API_KEY>>
      [] provider = "openai" -> <<OPENAI_API_KEY>>

RECURSIVE check_refs(_, _, _)
\* the loop of validate_provider_credentials over all_refs
check_refs(self, refs, checked) ==
    IF refs = <<>> THEN Returned("None")
    ELSE LET provider == Head(refs).provider
             env_vars == CredentialFields(provider)
             unset == { i \in 1..Len(env_vars) : self[env_vars[i]] = <<>> }
             first == CHOOSE i \in unset : \A j \in unset : i <= j
         IN IF provider \in checked THEN check_refs(self, Tail(refs), checked)
            ELSE IF unset # {}
            THEN Raised("ValueError",
                        <<"Provider ", provider,
                          " is referenced in model chains but ",
                          env_vars[first], " is not configured">>)
            ELSE check_refs(self, Tail(refs), checked \cup {provider})

\* a validation that looks at the parse chain only
validate_provider_credentials_parse_only(self) ==
    LET parse_part == parse_model_chain(self)
    IN IF parse_part.kind = "raise" THEN parse_part
       ELSE check_refs(self, parse_part.val, {})

\* Settings.validate_provider_credentials
validate_provider_credentials(self) ==
    LET parse_part == parse_model_chain(self)
        ocr_part == ocr_model_chain(self)
    IN IF parse_part.kind = "raise" THEN parse_part
       ELSE IF ocr_part.kind = "raise" THEN ocr_part
       ELSE check_refs(self, parse_part.val \o ocr_part.val, {})

\* chain entries the settings accept, with the provider each one names
CredentialEntries ==
    { [text |-> FLASH_ENTRY, provider |-> "openrouter"],
      [text |-> <<"anthropic", "/", "claude-haiku">>, provider |-> "anthropic"],
      [text |-> <<"openai", "/", "gpt-4o">>, provider |-> "openai"] }

\* texts that switch the OCR chain off
OcrOff == { <<>>, <<"none">>, <<" ", "NONE", " ">> }

\* values of a credential field: unset, set, a single blank
CredentialValues == { <<>>, <<"sk-valid">>, <<" ">> }

\* longest chain of the credential check
MaxCredentialEntries == 2

\* chains of one to MaxCredentialEntries accepted entries
CredentialChains ==
    UNION { [1..k -> CredentialEntries] : k \in 1..MaxCredentialEntries }

\* the chain string and the providers of a chain of entries
ChainOf(entries) ==
    [text |-> JoinEntries([i \in 1..Len(entries) |-> entries[i].text]),
     providers |-> { entries[i].provider : i \in 1..Len(entries) }]

\* the OCR settings: a chain, or one of the texts that switch it off
OcrChoices ==
    { ChainOf(es) : es \in CredentialChains }
       \cup { [text |-> off, providers |-> {}] : off \in OcrOff }

\* the Settings object and what its chains were built from
CredentialSettings ==
    { [self |-> [f \in {PARSE_FIELD, OCR_FIELD, OPENROUTER_API_KEY,
                        ANTHROPIC_API_KEY, OPENAI_API_KEY} |->
                    CASE f = PARSE_FIELD -> ChainOf(pes).text
                      [] f = OCR_FIELD -> oc.text
                      [] f = OPENROUTER_API_KEY -> k1
                      [] f = ANTHROPIC_API_KEY -> k2
                      [] f = OPENAI_API_KEY -> k3],
       parse_providers |-> ChainOf(pes).providers,
       ocr_providers |-> oc.providers,
       ocr_off |-> oc.text \in OcrOff] :
         pes \in CredentialChains, oc \in OcrChoices,
         k1 \in CredentialValues, k2 \in CredentialValues,
         k3 \in CredentialValues }

CredentialInit ==
    /\ RunIdle
    /\ ConfigIdle
    /\ ProviderIdle
    /\ ConcurrentIdle
    /\ LimitIdle
    /\ invoked \in
          { Some(Invocation("validate_provider_credentials", a)) :
               a \in { c \in CredentialSettings :
                          _validate_model_chains(c.self).kind = "return" } }
    /\ outcome = None

\* settings.validate_provider_credentials() at application startup
ValidateProviderCredentials ==
    /\ invoked.some /\ invoked.val.fn = "validate_provider_credentials"
    /\ outcome = None
    /\ outcome' = Some(validate_provider_credentials(invoked.val.arg.self))
    /\ UNCHANGED invoked
    /\ UNCHANGED outside_unit

CredentialNext == ValidateProviderCredentials

CredentialSpec == CredentialInit /\ [][CredentialNext]_vars

\* the providers the two chains were built from
Referenced == invoked.val.arg.parse_providers \cup invoked.val.arg.ocr_providers

\* some field that provider p needs is the empty string
LacksCredential(p) ==
    \E i \in 1..Len(CredentialFields(p)) :
       invoked.val.arg.self[CredentialFields(p)[i]] = <<>>

\* C29: validate_provider_credentials raises a ValueError exactly when
\* some provider named by the parse chain or the OCR chain has an empty
\* credential; providers named by neither chain do not matter, and an
\* OCR chain switched off with the sentinel names no provider.
C29_RaisesIffReferencedCredentialEmpty ==
    (invoked.some /\ invoked.val.fn = "validate_provider_credentials"
       /\ outcome.some) =>
       /\ outcome.val.kind = "raise" <=> \E p \in Referenced : LacksCredential(p)
       /\ outcome.val.kind = "raise" => outcome.val.type = "ValueError"
       /\ invoked.val.arg.ocr_off => invoked.val.arg.ocr_providers = {}

\* validation passed although a provider that no chain names has no
\* credential and the OCR chain is switched off
C29_Witness ==
    /\ invoked.some /\ invoked.val.fn = "validate_provider_credentials"
    /\ outcome.some /\ outcome.val.kind = "return"
    /\ invoked.val.arg.ocr_off
    /\ \E p \in REGISTERED_PROVIDERS \ Referenced : LacksCredential(p)

\* ============================================================ rate limiting
TEST_API_KEY == "sk-parse-test-key"
TEST_API_KEY_2 == "sk-parse-test-key-2"
STUB_IDENTITY == "test-identity"
STUB_IDENTITY_2 == "test-identity-2"
ANONYMOUS == "anonymous"

\* the amount of the limit "3/minute" the rate limit tests configure
RATE_LIMIT_AMOUNT == 3

\* most requests of one window
MaxRequests == 5

\* StubAuthProvider.validate_key
validate_key(api_key) == api_key \in {TEST_API_KEY, TEST_API_KEY_2}

\* StubAuthProvider.get_key_identity
get_key_identity(api_key) ==
    IF api_key = TEST_API_KEY THEN STUB_IDENTITY
    ELSE IF api_key = TEST_API_KEY_2 THEN STUB_IDENTITY_2
    ELSE "unknown"

\* request.state of a request no dependency has touched
FreshRequestState == [attr \in {} |-> ""]

\* require_api_key(request, api_key): the request state it leaves, or the
\* AuthenticationError it raises
require_api_key(request_state, api_key) ==
    IF ~api_key.some
    THEN [out |-> Raised("AuthenticationError", "Missing X-API-Key header"),
          request_state |-> request_state]
    ELSE IF ~validate_key(api_key.val)
    THEN [out |-> Raised("AuthenticationError", "Invalid API key"),
          request_state |-> request_state]
    ELSE [out |-> Returned(get_key_identity(api_key.val)),
          request_state |-> [attr \in {"key_identity"} |->
                                get_key_identity(api_key.val)]]

\* a key function that never finds the identity on the request
_key_func_before_auth(request_state) == ANONYMOUS

\* _key_func(request)
_key_func(request_state) ==
    IF "key_identity" \in DOMAIN request_state
    THEN request_state["key_identity"]
    ELSE ANONYMOUS

\* the keys a client puts in X-API-Key, None when the header is missing
PresentedKeys ==
    { None, Some(TEST_API_KEY), Some(TEST_API_KEY_2), Some("sk-wrong-key") }

\* the keys the limiter can count under
LimiterKeys == { STUB_IDENTITY, STUB_IDENTITY_2, ANONYMOUS }

\* one answered request: the key presented, the status, the identity the
\* dependency stored and the key the limiter counted it under
Served(api_key, status, key_identity, limit_key) ==
    [api_key |-> api_key, status |-> status,
     key_identity |-> key_identity, limit_key |-> limit_key]

\* POST /api/v1/parse answered: the dependency require_api_key, then the
\* limit of the decorated endpoint, then the endpoint body
parse_resume(hits, api_key, upload_ok) ==
    LET auth == require_api_key(FreshRequestState, api_key)
        limit_key == _key_func(auth.request_state)
        count == hits[limit_key] + 1
    IN IF auth.out.kind = "raise"
       THEN [hits |-> hits, served |-> Served(api_key, 401, "", "")]
       ELSE [hits |-> [hits EXCEPT ![limit_key] = count],
             served |-> Served(api_key,
                               IF count > RATE_LIMIT_AMOUNT THEN 429
                               ELSE IF upload_ok THEN 200 ELSE 400,
                               auth.out.val, limit_key)]

\* all requests of a behaviour fall into one window of the limit
RateLimitInit ==
    /\ RunIdle
    /\ ConfigIdle
    /\ ProviderIdle
    /\ ConcurrentIdle
    /\ UnitIdle
    /\ storage = [k \in LimiterKeys |-> 0]
    /\ served = <<>>

ParseRequest ==
    /\ Len(served) < MaxRequests
    /\ \E api_key \in PresentedKeys, upload_ok \in BOOLEAN :
          LET answered == parse_resume(storage, api_key, upload_ok)
          IN /\ storage' = answered.hits
             /\ served' = Append(served, answered.served)
    /\ UNCHANGED outside_limit

RateLimitNext == ParseRequest

RateLimitSpec == RateLimitInit /\ [][RateLimitNext]_vars

\* the requests before the i-th that presented the same key
EarlierSameKey(i) == { j \in 1..(i - 1) : served[j].api_key = served[i].api_key }

\* the i-th request presented a key the auth provider accepts
Authenticated(i) == served[i].api_key.some /\ validate_key(served[i].api_key.val)

\* C30: within one window a request with an accepted key is answered 429
\* exactly when that same key already made as many requests as the limit
\* allows, whatever other keys did, and the limiter counts it under the
\* identity that require_api_key stored on the request.
C30_LimitIsPerApiKey ==
    \A i \in 1..Len(served) :
       Authenticated(i) =>
          /\ served[i].status = 429 <=>
                Cardinality(EarlierSameKey(i)) >= RATE_LIMIT_AMOUNT
          /\ served[i].limit_key = served[i].key_identity
          /\ served[i].limit_key = get_key_identity(served[i].api_key.val)

\* key A was answered 429 and a later request with key B was answered 200
C30_Witness ==
    \E i \in 1..Len(served), j \in 1..Len(served) :
       /\ i < j
       /\ served[i].api_key = Some(TEST_API_KEY) /\ served[i].status = 429
       /\ served[j].api_key = Some(TEST_API_KEY_2) /\ served[j].status = 200

\* ============================================================ termination
\* C31: every run comes to END: no run stops anywhere else, it makes at
\* most one OCR provider call per OCR chain entry and one parse provider
\* call per parse chain entry, and every pass of the parse retry loop uses
\* a new chain entry, so the loop cannot go round forever.
C31_EveryRunReachesEnd ==
    /\ pc # "raised"
    /\ Len(OcrCalls) <= Len(state.ocr_chain)
    /\ Len(ParseCalls) <= Len(state.parse_chain)
    /\ pc = "parse" => Len(ParseCalls) = state.current_parse_index

\* ============================================================ result shape
\* C32: a returned PipelineResult has exactly one of data and error:
\* success is true exactly when data is present, and exactly when error
\* is absent.
C32_ExactlyOneOfDataAndError ==
    Finished =>
       /\ Outcome.success <=> Outcome.data.some
       /\ Outcome.data.some <=> ~Outcome.error.some
       /\ Outcome.data = state.resume_data
       /\ Outcome.error = state.error

\* a run returned a failure after the parse chain was tried to its end
C32_Witness ==
    /\ Finished
    /\ ~Outcome.success /\ ~Outcome.data.some /\ Truthy(Outcome.error)
    /\ Len(ParseCalls) = Len(state.parse_chain)
    /\ Len(ParseCalls) > 1

\* ============================================================ parse cursor
\* parse_node is about to read parse_chain[current_parse_index]
ParseIndexesChain == pc = "parse" /\ ~Truthy(state.error)

\* a step in which parse_node made a provider call and returned
ParseCallMade ==
    pc = "parse" /\ pc' = "check_parse" /\ Len(calls') = Len(calls) + 1

\* C33: whenever parse_node indexes the parse chain the cursor is inside
\* it, 0 <= current_parse_index < len(parse_chain), and when parse_node
\* has made a call and returned, the ledger holds current_parse_index + 1
\* 'parse' entries.
C33_ParseCursorInRange ==
    /\ [](ParseIndexesChain =>
            /\ 0 <= state.current_parse_index
            /\ state.current_parse_index < Len(state.parse_chain))
    /\ [][ParseCallMade =>
            Len(SelectSeq(state'.usage, LAMBDA u : u.step = "parse"))
               = state'.current_parse_index + 1]_vars

\* parse_node has made its second call, on the second chain entry
C33_Witness ==
    /\ pc = "check_parse"
    /\ Len(ParseCalls) = 2
    /\ state.current_parse_index = 1
    /\ Len(ParseLedger) = 2

\* ============================================================ ledger order
\* sequence a is the beginning of sequence b
IsPrefix(a, b) == Len(a) <= Len(b) /\ SubSeq(b, 1, Len(a)) = a

\* no 'ocr' entry of the ledger comes after a 'parse' entry
OcrBeforeParse(ledger) ==
    \A i, j \in 1..Len(ledger) :
       (ledger[i].step = "parse" /\ ledger[j].step = "ocr") => j < i

\* C34: the usage ledger only grows by appending (the ledger of a state is
\* the beginning of the ledger of the next state), its 'ocr' entries all
\* come before its 'parse' entries, and the models of the 'ocr' entries
\* and of the 'parse' entries are each the beginning of their chain, in
\* chain order.
C34_LedgerAppendOnlyAndOrdered ==
    /\ [][IsPrefix(state.usage, state'.usage)]_vars
    /\ [](/\ OcrBeforeParse(Ledger)
          /\ \A i \in 1..Len(Ledger) : Ledger[i].step \in {"ocr", "parse"}
          /\ IsPrefix(LedgerModels(OcrLedger),
                      ChainModels(state.ocr_chain, Len(state.ocr_chain)))
          /\ IsPrefix(LedgerModels(ParseLedger),
                      ChainModels(state.parse_chain, Len(state.parse_chain))))

\* a run returned with a ledger of two 'ocr' entries and two 'parse' entries
C34_Witness ==
    /\ Finished
    /\ Len(OcrLedger) = 2
    /\ Len(ParseLedger) = 2
    /\ Outcome.metadata.usage = state.usage

\* ============================================================ working text
\* the step leaves the working text and what it was derived from alone
TextKeysUnchanged ==
    /\ state'.text = state.text
    /\ state'.extraction_result = state.extraction_result
    /\ state'.text_quality = state.text_quality

\* once parsing has begun the run stays in the parse loop or ends
StaysInParseLoop ==
    pc \in {"parse", "check_parse"} =>
       pc' \in {"parse", "check_parse", "END", "raised"}

\* C35 as stated: the OCR step, the parse step and the parse-result check
\* leave text, ocr_text, extraction_result and text_quality unchanged, and
\* a parse retry never goes back to extraction or OCR.
C35_OnlyExtractAndQualityCheckWrite ==
    [][/\ pc \in {"ocr", "parse", "check_parse"} =>
             (TextKeysUnchanged /\ state'.ocr_text = state.ocr_text)
       /\ StaysInParseLoop]_vars

\* C35 amended: the OCR step leaves text, extraction_result and
\* text_quality unchanged (ocr_text is what it writes); the parse step and
\* the parse-result check leave text, ocr_text, extraction_result and
\* text_quality unchanged; the working text changes only in the extract
\* step and the OCR quality check; a parse retry never goes back to
\* extraction or OCR, so every retry sends the text of the first attempt.
C35_WorkingTextFrame ==
    [][/\ pc = "ocr" => TextKeysUnchanged
       /\ pc \in {"parse", "check_parse"} =>
             (TextKeysUnchanged /\ state'.ocr_text = state.ocr_text)
       /\ pc \notin {"extract", "check_ocr_quality"} => state'.text = state.text
       /\ StaysInParseLoop]_vars

\* a parse retry is about to send the OCR text that the quality check
\* selected before the first attempt
C35_Witness ==
    /\ pc = "parse"
    /\ state.current_parse_index = 1
    /\ Len(ParseCalls) = 1
    /\ state.ocr_attempted
    /\ state.ocr_text.some
    /\ state.text = state.ocr_text.val
    /\ state.text # state.extraction_result.val.text

\* ============================================================ OCR node
\* the step in which ocr_node returns its patch
OcrNodeReturns == pc = "ocr" /\ pc' = "check_ocr_quality"

\* what holds of the state once ocr_node has returned
OcrCursorAfterReturn(st) ==
    /\ 0 <= st.current_ocr_index
    /\ st.current_ocr_index <= Len(st.ocr_chain)
    /\ ~st.ocr_text.some <=> st.current_ocr_index = Len(st.ocr_chain)

\* C36: ocr_node runs at most once in a run (it is entered from the OCR
\* decision only, and never again once it has returned); when it has
\* returned, 0 <= current_ocr_index <= len(ocr_chain) and ocr_text is null
\* exactly when current_ocr_index = len(ocr_chain); ocr_attempted is false
\* until ocr_node returns and true from then on.
C36_OcrNodeRunsOnce ==
    /\ [][/\ (pc # "ocr" /\ pc' = "ocr") =>
                (pc = "check_ocr" /\ ~state.ocr_attempted)
          /\ OcrNodeReturns => (state'.ocr_attempted /\ OcrCursorAfterReturn(state'))
          /\ state'.ocr_attempted # state.ocr_attempted => OcrNodeReturns
          /\ ~OcrNodeReturns =>
                /\ state'.current_ocr_index = state.current_ocr_index
                /\ state'.ocr_text = state.ocr_text]_vars
    /\ [](/\ state.ocr_attempted => (pc # "ocr" /\ OcrCursorAfterReturn(state))
          /\ ~state.ocr_attempted =>
                (state.current_ocr_index = 0 /\ ~state.ocr_text.some))

\* ocr_node returned after every entry of a chain of two had failed
C36_Witness ==
    /\ pc = "check_ocr_quality"
    /\ state.ocr_attempted
    /\ ~state.ocr_text.some
    /\ state.current_ocr_index = 2
    /\ Len(state.ocr_chain) = 2
    /\ Len(OcrCalls) = 2

\* ============================================================ service calls
\* the PDF contents ocr_extract is called with
ServiceContents == { d.content : d \in Documents }

ServiceInit ==
    /\ RunIdle
    /\ ConfigIdle
    /\ ProviderIdle
    /\ ConcurrentIdle
    /\ LimitIdle
    /\ invoked \in
          { Some(Invocation("ocr_extract",
                            [content |-> c, model_ref |-> m, vision_reply |-> r])) :
               c \in ServiceContents, m \in ModelRefs, r \in OcrReplies }
          \cup { Some(Invocation("extract_resume_data",
                                 [text |-> t, model_ref |-> m, reply |-> r])) :
                    t \in {ShortText, GoodText}, m \in ModelRefs, r \in ParseReplies }
    /\ outcome = None

\* await ocr_extract(content, model_ref)
CallOcrExtract ==
    /\ invoked.val.fn = "ocr_extract"
    /\ outcome = None
    /\ outcome' = Some(ocr_extract(invoked.val.arg.content,
                                   invoked.val.arg.model_ref,
                                   invoked.val.arg.vision_reply))
    /\ UNCHANGED invoked
    /\ UNCHANGED outside_unit

\* await extract_resume_data(text, model_ref)
CallExtractResumeData ==
    /\ invoked.val.fn = "extract_resume_data"
    /\ outcome = None
    /\ outcome' = Some(extract_resume_data(invoked.val.arg.text,
                                           invoked.val.arg.model_ref,
                                           invoked.val.arg.reply))
    /\ UNCHANGED invoked
    /\ UNCHANGED outside_unit

ServiceNext == CallOcrExtract \/ CallExtractResumeData

ServiceSpec == ServiceInit /\ [][ServiceNext]_vars

\* the provider named by the invocation has an implementation
ProviderAvailable == invoked.val.arg.model_ref.provider = "openrouter"

\* the PDF of the invocation renders to at least one page image
HasPageImages ==
    invoked.val.arg.content.fmt = "pdf" /\ invoked.val.arg.content.pages > 0

\* the answer of the model is one that does not validate as a resume
AnswerDoesNotValidate ==
    invoked.val.arg.reply.ok
       /\ invoked.val.arg.reply.content \in {"not_json", "wrong_shape"}

\* C37: ocr_extract and extract_resume_data hand a ProviderError of the
\* one chat call they make to the caller as it is, with nothing returned
\* in its place, and extract_resume_data returns an answer that does not
\* validate as a failed result with the token usage the provider reported
\* and the validation errors, without raising.
C37_ServicesDoNotRetryOrSwallow ==
    outcome.some =>
       /\ invoked.val.fn = "ocr_extract" =>
             /\ (HasPageImages /\ ProviderAvailable
                    /\ ~invoked.val.arg.vision_reply.ok) =>
                   /\ outcome.val.called
                   /\ outcome.val.out =
                         Raised("ProviderError", invoked.val.arg.vision_reply.message)
             /\ (HasPageImages /\ ProviderAvailable
                    /\ invoked.val.arg.vision_reply.ok) =>
                   /\ outcome.val.called
                   /\ outcome.val.out.kind = "return"
                   /\ outcome.val.out.val.text = invoked.val.arg.vision_reply.content
                   /\ outcome.val.out.val.input_tokens =
                         invoked.val.arg.vision_reply.usage.input_tokens
             /\ ~(HasPageImages /\ ProviderAvailable) => ~outcome.val.called
       /\ invoked.val.fn = "extract_resume_data" =>
             /\ (ProviderAvailable /\ ~invoked.val.arg.reply.ok) =>
                   /\ outcome.val.called
                   /\ outcome.val.out =
                         Raised("ProviderError", invoked.val.arg.reply.message)
             /\ (ProviderAvailable /\ AnswerDoesNotValidate) =>
                   /\ outcome.val.called
                   /\ outcome.val.out.kind = "return"
                   /\ ~outcome.val.out.val.success
                   /\ ~outcome.val.out.val.data.some
                   /\ outcome.val.out.val.validation_errors # <<>>
                   /\ outcome.val.out.val.input_tokens =
                         invoked.val.arg.reply.usage.input_tokens
                   /\ outcome.val.out.val.output_tokens =
                         invoked.val.arg.reply.usage.output_tokens
             /\ ~ProviderAvailable => ~outcome.val.called

\* extract_resume_data returned a failed result with the five input tokens
\* the provider reported for an answer of the wrong shape
C37_Witness ==
    /\ invoked.some /\ invoked.val.fn = "extract_resume_data"
    /\ outcome.some
    /\ invoked.val.arg.reply.ok /\ invoked.val.arg.reply.content = "wrong_shape"
    /\ outcome.val.out.kind = "return"
    /\ ~outcome.val.out.val.success
    /\ outcome.val.out.val.input_tokens = 5

\* ============================================================ DOCX text
RECURSIVE join_with(_, _)
\* sep.join(strings)
join_with(strings, sep) ==
    IF strings = <<>> THEN <<>>
    ELSE IF Len(strings) = 1 THEN strings[1]
    ELSE strings[1] \o sep \o join_with(Tail(strings), sep)

RECURSIVE row_cells(_)
\* the cells of a table in the order the two inner loops visit them
row_cells(rows) ==
    IF rows = <<>> THEN <<>> ELSE Head(rows) \o row_cells(Tail(rows))

RECURSIVE cell_loop(_, _, _)
\* the loops over the rows and cells of one table
cell_loop(cells, seen, table_texts) ==
    IF cells = <<>> THEN [seen |-> seen, table_texts |-> table_texts]
    ELSE LET cell_text == strip(Head(cells))
         IN IF cell_text # <<>> /\ cell_text \notin seen
            THEN cell_loop(Tail(cells), seen \cup {cell_text},
                           Append(table_texts, cell_text))
            ELSE cell_loop(Tail(cells), seen, table_texts)

RECURSIVE table_loop_shared_seen(_, _, _)
\* a loop over the tables that keeps one seen set for the whole document
table_loop_shared_seen(tables, seen, table_texts) ==
    IF tables = <<>> THEN table_texts
    ELSE LET after == cell_loop(row_cells(Head(tables)), seen, table_texts)
         IN table_loop_shared_seen(Tail(tables), after.seen, after.table_texts)

RECURSIVE table_loop(_, _)
\* the loop over doc.tables: seen starts empty for every table
table_loop(tables, table_texts) ==
    IF tables = <<>> THEN table_texts
    ELSE table_loop(Tail(tables),
                    cell_loop(row_cells(Head(tables)), {}, table_texts).table_texts)

\* the text an opened document gives, with the lists it is joined from
DocxText(kept_paragraphs, table_texts) ==
    LET paragraph_text == join_with(kept_paragraphs, <<NL>>)
        table_text == join_with(table_texts, <<NL>>)
        parts == SelectSeq(<<paragraph_text, table_text>>, LAMBDA p : p # <<>>)
    IN [paragraphs |-> kept_paragraphs,
        table_texts |-> table_texts,
        text |-> join_with(parts, <<NL, NL>>)]

\* an extraction whose seen set is not reset between tables
docx_text_shared_seen(doc) ==
    DocxText(SelectSeq(doc.paragraphs, LAMBDA p : strip(p) # <<>>),
             table_loop_shared_seen(doc.tables, {}, <<>>))

\* extract_docx once the document is open: paragraphs, tables, full text
docx_text(doc) ==
    DocxText(SelectSeq(doc.paragraphs, LAMBDA p : strip(p) # <<>>),
             table_loop(doc.tables, <<>>))

\* cell texts: two skills, one of them again with a trailing blank, a
\* blank cell and an empty cell
CellTexts == { <<"a">>, <<"b">>, <<"a", " ">>, <<" ">>, <<>> }

\* tables of two rows of two cells
DocxTables == [1..2 -> [1..2 -> CellTexts]]

\* documents of no, one or two tables, without paragraphs or with a
\* paragraph that occurs twice and equals a cell text
DocxDocuments ==
    { [paragraphs |-> ps, tables |-> ts] :
         ps \in { <<>>, <<<<"a">>, <<" ">>, <<"a">>>> },
         ts \in {<<>>} \cup { <<t>> : t \in { <<<<<<"a">>, <<"a">>>>, <<<<"b">>, <<"a", " ">>>>>> } }
                  \cup { <<t1, t2>> : t1 \in DocxTables,
                            t2 \in { <<<<<<"a">>, <<"b">>>>, <<<<>>, <<"a">>>>>>,
                                     <<<<<<"b">>, <<"b">>>>, <<<<" ">>, <<"a", " ">>>>>> } } }

DocxInit ==
    /\ RunIdle
    /\ ConfigIdle
    /\ ProviderIdle
    /\ ConcurrentIdle
    /\ LimitIdle
    /\ invoked \in { Some(Invocation("extract_docx", d)) : d \in DocxDocuments }
    /\ outcome = None

\* extract_docx(content, filename) on bytes that open as a document
ExtractDocx ==
    /\ invoked.val.fn = "extract_docx"
    /\ outcome = None
    /\ outcome' = Some(docx_text(invoked.val.arg))
    /\ UNCHANGED invoked
    /\ UNCHANGED outside_unit

DocxNext == ExtractDocx

DocxSpec == DocxInit /\ [][DocxNext]_vars

\* the stripped text of the k-th cell of a table of two columns, rows first
StrippedCell(table, k) == strip(table[((k - 1) \div 2) + 1][((k - 1) % 2) + 1])

\* the cells of a table that are the first with their non-empty text
FirstOccurrences(table) ==
    { k \in 1..(2 * Len(table)) :
         /\ StrippedCell(table, k) # <<>>
         /\ \A j \in 1..(k - 1) : StrippedCell(table, j) # StrippedCell(table, k) }

\* the texts of those cells, in the order of the cells
EmittedFor(table) ==
    [n \in 1..Cardinality(FirstOccurrences(table)) |->
        StrippedCell(table,
            CHOOSE k \in FirstOccurrences(table) :
               Cardinality({ j \in FirstOccurrences(table) : j <= k }) = n)]

RECURSIVE EmittedForAll(_)
EmittedForAll(tables) ==
    IF tables = <<>> THEN <<>>
    ELSE EmittedFor(Head(tables)) \o EmittedForAll(Tail(tables))

\* C38: for every table, extract_docx emits each distinct non-empty cell
\* text once, in the order of first occurrence, table after table, so a
\* text that occurs in two tables is emitted for each of them; every
\* non-blank paragraph is emitted, repeated or not.
C38_CellsOncePerTable ==
    (invoked.some /\ invoked.val.fn = "extract_docx" /\ outcome.some) =>
       /\ outcome.val.table_texts = EmittedForAll(invoked.val.arg.tables)
       /\ Len(outcome.val.paragraphs) =
             Cardinality({ i \in 1..Len(invoked.val.arg.paragraphs) :
                              strip(invoked.val.arg.paragraphs[i]) # <<>> })
       /\ \A i \in 1..Len(outcome.val.paragraphs) :
             strip(outcome.val.paragraphs[i]) # <<>>

\* two tables share a cell text that the first table holds twice: it is
\* emitted once for each table, and the repeated paragraph twice
C38_Witness ==
    /\ invoked.some /\ invoked.val.fn = "extract_docx"
    /\ outcome.some
    /\ invoked.val.arg.tables =
          << <<<<<<"a">>, <<"a">>>>, <<<<"b">>, <<"a", " ">>>>>>,
             <<<<<<"a">>, <<"b">>>>, <<<<>>, <<"a">>>>>> >>
    /\ outcome.val.table_texts = << <<"a">>, <<"b">>, <<"a">>, <<"b">> >>
    /\ outcome.val.paragraphs = << <<"a">>, <<"a">> >>

====
